---- MODULE Spec2Model ----
(***************************************************************************)
(* A model of alarm-clock-rs: the valid-region convolution                 *)
(* (filtered_source.rs: convolve), the streaming low-pass filter and its   *)
(* controller handle (filtered_source.rs: FilteredSource::next,            *)
(* Controller::set_volume) and the playback control loop (alarm.rs: play). *)
(*                                                                         *)
(* Numbers.  Samples and kernel taps are small integers: they are exactly  *)
(* representable in f32 and f32 arithmetic on them is exact.  A gain and   *)
(* every sample after the gain has been applied are fixed-point numbers in *)
(* units of 1/One, so One stands for 1.0.  Times are integer milliseconds. *)
(***************************************************************************)
EXTENDS Integers, Sequences, FiniteSets, TLC

VARIABLES
    \* ---- convolve called on its own (SpecConvolve) ----
    cv_filter,      \* the filter argument
    cv_input,       \* the input argument
    cv_output,      \* the output argument (the caller's buffer)
    cv_build,       \* "debug" (overflow checks on) or "release" (wrapping)
    cv_result,      \* NoResult, or what the call did: [panicked, output, written]
    \* ---- FilteredSource and the shared Settings (Spec) ----
    input,                      \* the upstream samples not pulled yet
    lowpass_designs,            \* the kernels lowpass_filter may return in this run
    settings_lowpass,           \* Settings.lowpass
    settings_volume,            \* Settings.volume, in units of 1/One
    settings_lock,              \* who holds the settings mutex: "free" or "filter"
    current_buffer,             \* FilteredSource.current_buffer
    current_buffer_index,       \* FilteredSource.current_buffer_index
    input_buffer,               \* FilteredSource.input_buffer
    trailing_samples,           \* FilteredSource.trailing_samples
    sample_count,               \* FilteredSource.sample_count
    last_lowpass_recalculation, \* FilteredSource.last_lowpass_recalculation
    fpc,                        \* where next() is: "idle", "pull", "convolve", "panicked"
    hist,                       \* history of the filter run (read by the properties only)
    \* ---- play and the alarm state it polls (SpecPlay) ----
    now,                \* the clock, in ms since play took t0
    play_pc,            \* where play is: "none", "running", "fadeout", "exit",
                        \*   "zeroed", "sunk", "stopped"
    play_wake,          \* when play's thread::sleep ends
    t1,                 \* play's t1 (-1 before it is taken)
    manually_cancelled, \* play's manually_cancelled
    trigger_time,       \* play's trigger_time argument
    inner,              \* AlarmState.inner: [enabled, next_alarm]
    last_played_time,   \* AlarmState.last_played: [some, val]
    sink_stopped,       \* sink.stop() has been called
    phist,              \* history of the session (read by the properties only)
    \* ---- SleepMonitor (SpecMonitor) ----
    rolling_data,       \* SleepMonitor.rolling_data: the acc field of each entry
    times,              \* SleepMonitor.times, each Instant as its elapsed() now
    rolling_delta_magn, \* SleepMonitor.rolling_delta_magn
    is_user_in_bed,     \* the synced container SleepMonitor.is_user_in_bed
    mon_query,          \* what the last is_present / is_significant_movement returned
    mon_quiet,          \* the sensor is at rest from now on: every sample repeats the last
    mhist,              \* history of the monitor (read by the properties only)
    \* ---- start_alarm_thread (SpecThread) ----
    th_pc,              \* where the loop is: "none", "poll", "select", "playing", "sleep"
    th_trigger,         \* the loop's trigger_time: [some, val]
    is_playing,         \* the synced container AlarmState.is_playing
    thist,              \* history of the loop (read by the properties only)
    \* ---- the retry tasks play spawns (SpecRetry) ----
    retry_tasks,        \* the spawned tasks still running: a set of [trigger, wake, pc]
    rhist,              \* history of the sessions and re-arms (read by the properties only)
    \* ---- a pure function called on its own (SpecEnvelope, SpecLucid, SpecDesign) ----
    fn_call,            \* the call: a record with the function's name and arguments
    fn_result,          \* NoResult, or what the call returned
    \* ---- monitor_sleeping_duration (SpecSleeping) ----
    sleeping_start_time, \* the shared Option<Instant>: [some, val]
    shist               \* history of the task's loop (read by the properties only)

cvVars == <<cv_filter, cv_input, cv_output, cv_build, cv_result>>
filterVars == <<input, lowpass_designs, settings_lowpass, settings_volume, settings_lock,
                current_buffer, current_buffer_index, input_buffer,
                trailing_samples, sample_count, last_lowpass_recalculation,
                fpc, hist>>
filterOwnVars == <<input, lowpass_designs, settings_lowpass, settings_lock,
                   current_buffer, current_buffer_index, input_buffer,
                   trailing_samples, sample_count, last_lowpass_recalculation,
                   fpc, hist>>
playVars == <<now, play_pc, play_wake, t1, manually_cancelled, trigger_time,
              inner, last_played_time, sink_stopped, phist>>
monitorVars == <<rolling_data, times, rolling_delta_magn, is_user_in_bed, mon_query,
                 mon_quiet, mhist>>
threadVars == <<th_pc, th_trigger, is_playing, thist>>
retryVars == <<retry_tasks, rhist>>
callVars == <<fn_call, fn_result>>
sleepVars == <<sleeping_start_time, shist>>
vars == <<cvVars, filterVars, playVars, monitorVars, threadVars, retryVars, callVars, sleepVars>>

\* what the steps of one component leave alone
nonConvVars == <<filterVars, playVars, monitorVars, threadVars, retryVars, callVars, sleepVars>>
nonFilterVars == <<cvVars, playVars, monitorVars, threadVars, retryVars, callVars, sleepVars>>
nonPlayVars == <<cvVars, filterOwnVars, monitorVars, threadVars, retryVars, callVars, sleepVars>>

----------------------------------------------------------------------------
(* Bounds of the model *)

\* longest filter, input and output handed to convolve in SpecConvolve
MaxConvFilter == 4
MaxConvInput == 5
MaxConvOutput == 3

\* 1.0 in the fixed-point unit of gains and of samples after the gain
One == 10 ^ 6

\* values of upstream samples and of kernel taps
SampleValues == {-1, 2}
TapValues == {1, 2}

Min(a, b) == IF a <= b THEN a ELSE b
Max(a, b) == IF a >= b THEN a ELSE b

SeqsUpTo(S, n) == UNION {[1..k -> S] : k \in 0..n}

----------------------------------------------------------------------------
(* usize arithmetic.  A subtraction that underflows panics in a debug      *)
(* build and wraps in a release build.  The word is 2^64 in the program;   *)
(* the model keeps a word far larger than every length it handles.         *)

UsizeModulus == 2 ^ 16

UsizeSub(a, b, build) ==
    IF a >= b THEN [panicked |-> FALSE, val |-> a - b]
    ELSE IF build = "debug" THEN [panicked |-> TRUE, val |-> 0]
    ELSE [panicked |-> FALSE, val |-> (a - b) % UsizeModulus]

----------------------------------------------------------------------------
(* convolve (filtered_source.rs 72-88) *)

NoResult == [panicked |-> FALSE, output |-> <<>>, written |-> {}, returned |-> FALSE]

\* v after the inner loop `for j in 0..filter.len()` has run for j < n:
\* v = 0.0, then v += input[i + j - h_len] * filter[j].  (Indices are 0-based
\* in the source and 1-based in the sequences of the model.)
RECURSIVE ConvolveAcc(_, _, _, _, _)
ConvolveAcc(filter, inp, i, h_len, n) ==
    IF n = 0 THEN 0
    ELSE ConvolveAcc(filter, inp, i, h_len, n - 1)
         + inp[(i + (n - 1) - h_len) + 1] * filter[(n - 1) + 1]

\* One output sample: the inner loop over the whole filter (lines 82-85).
ConvolveSampleReversed(filter, inp, i, h_len) ==
    ConvolveAcc([k \in 1..Len(filter) |-> filter[Len(filter) + 1 - k]], inp, i, h_len,
                Len(filter))
ConvolveSampleAhead(filter, inp, i, h_len) ==
    ConvolveAcc(filter, inp, i + 1, h_len, Len(filter))
ConvolveSample(filter, inp, i, h_len) == ConvolveAcc(filter, inp, i, h_len, Len(filter))

\* The loop `for i in h_len..input.len() - h_len`.  An index outside a slice
\* panics (Rust checks bounds): the samples written before it stay written.
ConvolveLoop(filter, inp, output) ==
    LET h_len == Len(filter) \div 2
        range == h_len .. (Len(inp) - h_len - 1)
        bad(i) == \/ \E j \in 0..(Len(filter) - 1) :
                        (i + j - h_len) + 1 \notin 1..Len(inp)
                  \/ (i - h_len) + 1 \notin 1..Len(output)
        firstBad == IF \E i \in range : bad(i)
                    THEN CHOOSE i \in range : bad(i) /\ \A k \in range : bad(k) => i <= k
                    ELSE Len(inp) - h_len
        done == {i \in range : i < firstBad}
    IN [panicked |-> (\E i \in range : bad(i)),
        output |-> [k \in 1..Len(output) |->
                        IF (k - 1) + h_len \in done
                        THEN ConvolveSample(filter, inp, (k - 1) + h_len, h_len)
                        ELSE output[k]],
        written |-> {(i - h_len) + 1 : i \in done},
        returned |-> ~(\E i \in range : bad(i))]

ConvolvePanic(output) ==
    [panicked |-> TRUE, output |-> output, written |-> {}, returned |-> FALSE]

\* The three assertions, in the source's order, then the loop.
\* `input.len() - filter.len()` is a usize subtraction.
convolveNoShapeCheck(filter, inp, output, build) ==
    IF Len(filter) % 2 # 0 THEN ConvolvePanic(output)
    ELSE IF ~(Len(inp) >= Len(filter)) THEN ConvolvePanic(output)
    ELSE ConvolveLoop(filter, inp, output)
convolve(filter, inp, output, build) ==
    LET diff == UsizeSub(Len(inp), Len(filter), build)
    IN IF diff.panicked THEN ConvolvePanic(output)
       ELSE IF Len(output) # diff.val THEN ConvolvePanic(output)
       ELSE IF Len(filter) % 2 # 0 THEN ConvolvePanic(output)
       ELSE IF ~(Len(inp) >= Len(filter)) THEN ConvolvePanic(output)
       ELSE ConvolveLoop(filter, inp, output)

----------------------------------------------------------------------------
(* SpecConvolve: convolve applied to bounded arguments *)

ConvIdle ==
    /\ cv_filter = <<>>
    /\ cv_input = <<>>
    /\ cv_output = <<>>
    /\ cv_build = "debug"
    /\ cv_result = NoResult

ConvInit ==
    /\ cv_filter \in SeqsUpTo(TapValues, MaxConvFilter)
    /\ cv_input \in SeqsUpTo(SampleValues, MaxConvInput)
    /\ cv_output \in {[k \in 1..n |-> 0] : n \in 0..MaxConvOutput}
    /\ cv_build \in {"debug", "release"}
    /\ cv_result = NoResult

ConvolveCall ==
    /\ cv_result = NoResult
    /\ cv_result' = convolve(cv_filter, cv_input, cv_output, cv_build)
    /\ UNCHANGED <<cv_filter, cv_input, cv_output, cv_build>>
    /\ UNCHANGED nonConvVars

FilterIdle ==
    /\ input = <<>>
    /\ lowpass_designs = {}
    /\ settings_lowpass = <<>>
    /\ settings_volume = One
    /\ settings_lock = "free"
    /\ current_buffer = <<>>
    /\ current_buffer_index = 0
    /\ input_buffer = <<>>
    /\ trailing_samples = <<>>
    /\ sample_count = 0
    /\ last_lowpass_recalculation = 0
    /\ fpc = "idle"
    /\ hist = <<>>

PlayIdle ==
    /\ now = 0
    /\ play_pc = "none"
    /\ play_wake = 0
    /\ t1 = -1
    /\ manually_cancelled = FALSE
    /\ trigger_time = 0
    /\ inner = [enabled |-> FALSE, next_alarm |-> 0]
    /\ last_played_time = [some |-> FALSE, val |-> 0]
    /\ sink_stopped = FALSE
    /\ phist = <<>>

\* SleepMonitor::new (sleep_monitor.rs 79-90): empty windows
MonitorIdle ==
    /\ rolling_data = <<>>
    /\ times = <<>>
    /\ rolling_delta_magn = <<>>
    /\ is_user_in_bed = FALSE
    /\ mon_query = <<>>
    /\ mon_quiet = FALSE
    /\ mhist = <<>>

ThreadIdle ==
    /\ th_pc = "none"
    /\ th_trigger = [some |-> FALSE, val |-> 0]
    /\ is_playing = FALSE
    /\ thist = <<>>

\* no retry task has been spawned
RetryIdle ==
    /\ retry_tasks = {}
    /\ rhist = <<>>

CallIdle ==
    /\ fn_call = <<>>
    /\ fn_result = NoResult

SleepingIdle ==
    /\ sleeping_start_time = [some |-> FALSE, val |-> 0]
    /\ shist = <<>>

OthersIdle == RetryIdle /\ CallIdle /\ SleepingIdle

InitConvolve == ConvInit /\ FilterIdle /\ PlayIdle /\ MonitorIdle /\ ThreadIdle /\ OthersIdle
NextConvolve == ConvolveCall
SpecConvolve == InitConvolve /\ [][NextConvolve]_vars

----------------------------------------------------------------------------
\* C3: for an even-length kernel K and an input X with |X| >= |K| (and an
\* output buffer of |X| - |K| samples), convolve returns normally, writes
\* exactly the |X| - |K| samples of the output, and output[i] is the direct
\* sum over j in [0, |K|) of X[i + j] * K[j].
RECURSIVE DirectSum(_, _, _, _)
DirectSum(K, X, i, n) ==
    IF n = 0 THEN 0 ELSE DirectSum(K, X, i, n - 1) + X[i + (n - 1) + 1] * K[(n - 1) + 1]

ConvolvePre ==
    /\ Len(cv_filter) % 2 = 0
    /\ Len(cv_input) >= Len(cv_filter)
    /\ Len(cv_output) = Len(cv_input) - Len(cv_filter)

C3_ConvolveDirectSum ==
    (cv_result # NoResult /\ ConvolvePre) =>
        /\ cv_result.returned /\ ~cv_result.panicked
        /\ Len(cv_result.output) = Len(cv_input) - Len(cv_filter)
        /\ cv_result.written = 1..(Len(cv_input) - Len(cv_filter))
        /\ \A i \in 0..(Len(cv_input) - Len(cv_filter) - 1) :
              cv_result.output[i + 1] = DirectSum(cv_filter, cv_input, i, Len(cv_filter))

C3_Witness ==
    /\ cv_result # NoResult /\ ConvolvePre
    /\ Len(cv_filter) = 4 /\ Len(cv_input) = 5
    /\ cv_result.output = <<DirectSum(cv_filter, cv_input, 0, 4)>>

\* C4: when a length precondition is violated (the output is not
\* |input| - |filter| long, the filter has odd length, or the input is
\* shorter than the filter) convolve panics: it does not return and it
\* leaves the output as it was.
C4_ConvolveRejectsBadShape ==
    (cv_result # NoResult /\ ~ConvolvePre) =>
        /\ cv_result.panicked /\ ~cv_result.returned
        /\ cv_result.written = {}
        /\ cv_result.output = cv_output

C4_Witness ==
    /\ cv_result # NoResult
    /\ cv_result.panicked
    /\ cv_build = "release"
    /\ Len(cv_filter) = 4 /\ Len(cv_input) = 3 /\ Len(cv_output) = 1


----------------------------------------------------------------------------
(* FilteredSource::next and Controller::set_volume (Spec)                  *)

\* The source's 1024 (filtered_source.rs 144) and 8192 (filtered_source.rs 130),
\* scaled down so that a run crosses several block boundaries and several
\* recomputations; the kernels keep the program's proportion (400 taps in a
\* block of 1024: no kernel is longer than half a block).
BLOCK_SIZE == 8
RECOMPUTE_INTERVAL == 5

\* longest upstream, and the number of samples after which the run is cut
MaxUpstream == 6
MaxSamples == 9
\* number of set_volume calls in a run
MaxSetVolume == 2

\* What lowpass_filter may return: kernels of even length.  Which one depends
\* on lowpass_freq(t), so a recomputation may change the kernel.
Kernels == {<<1, 2>>, <<2, 1, 1, 1>>}
\* lowpass_filter is code of the synthrs crate: next() itself puts no limit on
\* the kernel it is handed.  An even kernel longer than half a block that
\* still leaves frame_size positive:
LongKernels == {<<1, 1, 1, 1, 1, 2>>}

\* Arguments of set_volume: in range, and out of range and negative.
Volumes == {One \div 2, -3 * One}

Zeros(n) == [k \in 1..n |-> 0]

\* iter.chain(repeat(0.0)).take(n): the next n samples, zeros once the
\* upstream has ended, and what is left of the upstream.
TakeUnpadded(upstream, n) ==
    [taken |-> SubSeq(upstream, 1, Min(n, Len(upstream))),
     rest |-> SubSeq(upstream, Min(n, Len(upstream)) + 1, Len(upstream))]
TakePadded(upstream, n) ==
    [taken |-> SubSeq(upstream, 1, Min(n, Len(upstream)))
                    \o Zeros(n - Min(n, Len(upstream))),
     rest |-> SubSeq(upstream, Min(n, Len(upstream)) + 1, Len(upstream))]

\* Vec::append(&mut other): moves every element of other, leaving it empty.
AppendCopy(dst, src) == [dst |-> dst \o src, src |-> src]
AppendDrain(dst, src) == [dst |-> dst \o src, src |-> <<>>]

\* Vec::resize(n, 0.0): truncates, or extends with zeros.
ResizeForgotten(buf, n) == buf
Resize(buf, n) == [k \in 1..n |-> IF k <= Len(buf) THEN buf[k] ELSE 0]

\* &input_samples[input_samples.len() - lowpass.len()..]
LastFirstSamples(samples, n) == SubSeq(samples, 1, n)
LastSamples(samples, n) == SubSeq(samples, Len(samples) - n + 1, Len(samples))

\* f32::clamp(-1.0, 1.0) in the fixed-point unit
Clamp(s) == IF s < -One THEN -One ELSE IF s > One THEN One ELSE s

\* `*s *= settings.volume; *s = s.clamp(-1.0, 1.0)` for every s of the buffer
ApplyGainNoClamp(buffer, volume) == [k \in 1..Len(buffer) |-> buffer[k] * volume]
ApplyGainIgnored(buffer, volume) == [k \in 1..Len(buffer) |-> Clamp(buffer[k] * One)]
ApplyGain(buffer, volume) == [k \in 1..Len(buffer) |-> Clamp(buffer[k] * volume)]

\* `lowpass.is_empty() || self.sample_count > self.last_lowpass_recalculation + 8192`
RecomputeAlways(lowpass, count, last) == TRUE
RecomputeDue(lowpass, count, last) ==
    lowpass = <<>> \/ count > last + RECOMPUTE_INTERVAL

HistInit(upstream) ==
    [source |-> upstream,      \* the whole upstream
     pulled |-> 0,             \* samples taken from upstream (zero padding included)
     raw |-> <<>>,             \* every block as convolve left it, concatenated
     gain |-> <<>>,            \* the gain that was applied to each sample of raw
     emitted |-> <<>>,         \* the samples next() returned
     blocks |-> 0,             \* refills completed
     block_raw |-> <<>>,       \* the last block as convolve left it
     kernels |-> <<>>,         \* the kernels designed, in order
     recomputed_at |-> <<>>,   \* sample_count at each recomputation
     last_set |-> One,         \* the last value stored by set_volume (1.0 at construction)
     set_before_refill |-> One,\* last_set when the last refill started
     sets |-> 0]               \* set_volume calls so far

FilterInit ==
    /\ input \in SeqsUpTo(SampleValues, MaxUpstream)
    /\ lowpass_designs = Kernels
    /\ settings_lowpass = <<>>
    /\ settings_volume = One
    /\ settings_lock = "free"
    /\ current_buffer = <<>>
    /\ current_buffer_index = 0
    /\ input_buffer = <<>>
    /\ trailing_samples = <<>>
    /\ sample_count = 0
    /\ last_lowpass_recalculation = 0
    /\ fpc = "idle"
    /\ hist = HistInit(input)

\* next(), lines 118-122: a buffered sample is returned.
NextBuffered ==
    /\ fpc = "idle"
    /\ current_buffer_index < Len(current_buffer)
    /\ sample_count < MaxSamples
    /\ current_buffer_index' = current_buffer_index + 1
    /\ sample_count' = sample_count + 1
    /\ hist' = [hist EXCEPT !.emitted = Append(@, current_buffer[current_buffer_index + 1])]
    /\ UNCHANGED <<input, lowpass_designs, settings_lowpass, settings_volume,
                   settings_lock, current_buffer, input_buffer, trailing_samples,
                   last_lowpass_recalculation, fpc>>
    /\ UNCHANGED nonFilterVars

\* next(), lines 124-148: the buffer is drained; the settings are locked, the
\* kernel is recomputed when due, and the trailing samples are moved to the
\* front of the working input.
RefillLock ==
    /\ fpc = "idle"
    /\ ~(current_buffer_index < Len(current_buffer))
    /\ sample_count < MaxSamples
    /\ settings_lock = "free"
    /\ settings_lock' = "filter"
    /\ IF RecomputeDue(settings_lowpass, sample_count, last_lowpass_recalculation)
       THEN /\ last_lowpass_recalculation' = sample_count
            /\ settings_lowpass' \in lowpass_designs
            /\ hist' = [hist EXCEPT !.kernels = Append(@, settings_lowpass'),
                                    !.recomputed_at = Append(@, sample_count),
                                    !.set_before_refill = hist.last_set]
       ELSE /\ UNCHANGED <<last_lowpass_recalculation, settings_lowpass>>
            /\ hist' = [hist EXCEPT !.set_before_refill = hist.last_set]
    /\ LET moved == AppendDrain(<<>>, trailing_samples)
       IN /\ input_buffer' = moved.dst
          /\ trailing_samples' = moved.src
    /\ fpc' = "pull"
    /\ UNCHANGED <<input, lowpass_designs, settings_volume, current_buffer,
                   current_buffer_index, sample_count>>
    /\ UNCHANGED nonFilterVars

\* next(), lines 144-167, the settings still locked: frame_size samples are
\* pulled from upstream, the assertion is checked, the trailing samples are
\* saved and the output buffer is resized.  `1024 - lowpass.len()` is a usize
\* subtraction: on underflow a debug build panics and a release build asks
\* for nearly 2^64 samples of an endless iterator, and never comes back.
RefillPull ==
    /\ fpc = "pull"
    /\ \E build \in {"debug", "release"} :
         LET frame_size == UsizeSub(BLOCK_SIZE, Len(settings_lowpass), build)
             got == TakePadded(input, frame_size.val)
             input_samples == input_buffer \o got.taken
         IN IF frame_size.panicked
            THEN /\ fpc' = "panicked"
                 /\ UNCHANGED <<input, input_buffer, trailing_samples, current_buffer, hist>>
            ELSE IF frame_size.val > BLOCK_SIZE
            THEN /\ fpc' = "diverged"
                 /\ UNCHANGED <<input, input_buffer, trailing_samples, current_buffer, hist>>
            ELSE /\ input' = got.rest
                 /\ input_buffer' = input_samples
                 /\ hist' = [hist EXCEPT !.pulled = @ + frame_size.val]
                 /\ IF ~(Len(input_samples) >= Len(settings_lowpass))
                    THEN /\ fpc' = "panicked"
                         /\ UNCHANGED <<trailing_samples, current_buffer>>
                    ELSE /\ trailing_samples' =
                                trailing_samples
                                  \o LastSamples(input_samples, Len(settings_lowpass))
                         /\ current_buffer' =
                                Resize(current_buffer,
                                       Len(input_samples) - Len(settings_lowpass))
                         /\ fpc' = "convolve"
    /\ UNCHANGED <<lowpass_designs, settings_lowpass, settings_volume, settings_lock,
                   current_buffer_index, sample_count, last_lowpass_recalculation>>
    /\ UNCHANGED nonFilterVars

\* next(), lines 168-176: the convolution, the gain and the clamp, all with
\* the settings still locked; the lock is released at the end of the block.
RefillConvolve ==
    /\ fpc = "convolve"
    /\ \E build \in {"debug", "release"} :
         LET r == convolve(settings_lowpass, input_buffer, current_buffer, build)
         IN IF r.panicked
            THEN /\ fpc' = "panicked"
                 /\ current_buffer' = r.output
                 /\ UNCHANGED <<current_buffer_index, settings_lock, hist>>
            ELSE /\ current_buffer' = ApplyGain(r.output, settings_volume)
                 /\ current_buffer_index' = 0
                 /\ settings_lock' = "free"
                 /\ fpc' = "idle"
                 /\ hist' = [hist EXCEPT
                        !.raw = @ \o r.output,
                        !.gain = @ \o [k \in 1..Len(r.output) |-> settings_volume],
                        !.block_raw = r.output,
                        !.blocks = @ + 1]
    /\ UNCHANGED <<input, lowpass_designs, settings_lowpass, settings_volume,
                   input_buffer, trailing_samples, sample_count,
                   last_lowpass_recalculation>>
    /\ UNCHANGED nonFilterVars

\* Controller::set_volume, lines 66-68: lock, store, unlock.  It waits while
\* the filter holds the lock.
SetVolumeAndKernel ==
    /\ settings_lock = "free"
    /\ hist.sets < MaxSetVolume
    /\ \E v \in Volumes :
         /\ settings_volume' = v
         /\ hist' = [hist EXCEPT !.last_set = v, !.sets = @ + 1]
    /\ settings_lowpass' = <<>>
    /\ UNCHANGED <<input, lowpass_designs, settings_lock,
                   current_buffer, current_buffer_index, input_buffer,
                   trailing_samples, sample_count, last_lowpass_recalculation, fpc>>
    /\ UNCHANGED nonFilterVars
SetVolume ==
    /\ settings_lock = "free"
    /\ hist.sets < MaxSetVolume
    /\ \E v \in Volumes :
         /\ settings_volume' = v
         /\ hist' = [hist EXCEPT !.last_set = v, !.sets = @ + 1]
    /\ UNCHANGED <<input, lowpass_designs, settings_lowpass, settings_lock,
                   current_buffer, current_buffer_index, input_buffer,
                   trailing_samples, sample_count, last_lowpass_recalculation, fpc>>
    /\ UNCHANGED nonFilterVars

Init == ConvIdle /\ FilterInit /\ PlayIdle /\ MonitorIdle /\ ThreadIdle /\ OthersIdle
Next == NextBuffered \/ RefillLock \/ RefillPull \/ RefillConvolve \/ SetVolume
Spec == Init /\ [][Next]_vars

\* The audio thread keeps calling next(), and a call that refills runs to its
\* end: the refill's steps are weakly fair.  The upstreams are of every
\* length up to MaxUpstream, each of one repeated sample value.
FilterInitAudio ==
    /\ input \in {[k \in 1..n |-> v] : n \in 0..MaxUpstream, v \in SampleValues}
    /\ lowpass_designs = Kernels
    /\ settings_lowpass = <<>>
    /\ settings_volume = One
    /\ settings_lock = "free"
    /\ current_buffer = <<>>
    /\ current_buffer_index = 0
    /\ input_buffer = <<>>
    /\ trailing_samples = <<>>
    /\ sample_count = 0
    /\ last_lowpass_recalculation = 0
    /\ fpc = "idle"
    /\ hist = HistInit(input)

InitAudio == ConvIdle /\ FilterInitAudio /\ PlayIdle /\ MonitorIdle /\ ThreadIdle /\ OthersIdle
NextAudio == NextBuffered \/ RefillLock \/ RefillPull \/ RefillConvolve \/ SetVolume
SpecAudio ==
    /\ InitAudio
    /\ [][NextAudio]_vars
    /\ WF_vars(RefillLock)
    /\ WF_vars(RefillPull)
    /\ WF_vars(RefillConvolve)

\* The filter handed kernels of any even length that leaves frame_size
\* positive.
FilterInitAnyKernel ==
    /\ input \in SeqsUpTo(SampleValues, MaxUpstream)
    /\ lowpass_designs = Kernels \cup LongKernels
    /\ settings_lowpass = <<>>
    /\ settings_volume = One
    /\ settings_lock = "free"
    /\ current_buffer = <<>>
    /\ current_buffer_index = 0
    /\ input_buffer = <<>>
    /\ trailing_samples = <<>>
    /\ sample_count = 0
    /\ last_lowpass_recalculation = 0
    /\ fpc = "idle"
    /\ hist = HistInit(input)

InitAnyKernel == ConvIdle /\ FilterInitAnyKernel /\ PlayIdle /\ MonitorIdle /\ ThreadIdle /\ OthersIdle
NextAnyKernel == NextBuffered \/ RefillLock \/ RefillPull \/ RefillConvolve \/ SetVolume
SpecAnyKernel == InitAnyKernel /\ [][NextAnyKernel]_vars

----------------------------------------------------------------------------
(* Properties of the filter *)

\* X zero-extended past its end, read at the 0-based index k
ZeroExtended(X, k) == IF k < Len(X) THEN X[k + 1] ELSE 0

\* the batch valid convolution at the 0-based index n: the sum over j < m of
\* X[n + j] * K[j]
RECURSIVE BatchSum(_, _, _, _)
BatchSum(K, X, n, m) ==
    IF m = 0 THEN 0
    ELSE BatchSum(K, X, n, m - 1) + ZeroExtended(X, n + (m - 1)) * K[(m - 1) + 1]

\* every recomputation so far designed the same kernel
KernelFixed ==
    /\ hist.kernels # <<>>
    /\ \A i \in 1..Len(hist.kernels) : hist.kernels[i] = hist.kernels[1]

\* C1: with a kernel K that does not vary, the blocks produced by next(),
\* concatenated, are the batch valid convolution of the zero-extended
\* upstream X with K: the n-th sample before gain and clamp is the sum over j
\* of X[n + j] * K[j], the n-th sample returned under gain 1 is that sum
\* (clamped), and at a block boundary every sample pulled so far but the
\* last |K| has been produced exactly once.
C1_StreamEqualsBatch ==
    KernelFixed =>
        LET K == hist.kernels[1]
        IN /\ \A n \in 1..Len(hist.raw) :
                 hist.raw[n] = BatchSum(K, hist.source, n - 1, Len(K))
           /\ Len(hist.emitted) = sample_count
           /\ Len(hist.emitted) <= Len(hist.raw)
           /\ \A n \in 1..Len(hist.emitted) :
                 hist.gain[n] = One =>
                    hist.emitted[n] = Clamp(BatchSum(K, hist.source, n - 1, Len(K)) * One)
           /\ (fpc = "idle" /\ hist.blocks >= 1) =>
                 Len(hist.raw) = hist.pulled - Len(K)

\* two blocks were returned, the kernel was recomputed (to the same kernel),
\* and a sample that rests on the trailing samples of the block before it
\* was returned under gain 1
C1_Witness ==
    /\ KernelFixed
    /\ Len(hist.kernels) >= 2
    /\ hist.blocks >= 3
    /\ Len(hist.emitted) >= 8
    /\ hist.gain[5] = One
    /\ hist.raw[5] # 0
    /\ hist.emitted[5] = Clamp(hist.raw[5] * One)

\* C2: every sample returned by next() lies in [-1.0, 1.0], whatever values
\* set_volume stored between the refills.
C2_OutputClamped ==
    \A n \in 1..Len(hist.emitted) : -One <= hist.emitted[n] /\ hist.emitted[n] <= One

C2_Witness ==
    \E n \in 1..Len(hist.emitted) :
        /\ hist.gain[n] = -3 * One
        /\ hist.raw[n] < -1
        /\ hist.emitted[n] = One

\* C5: at every block boundary after the first block, trailing_samples is as
\* long as the kernel stored in the shared settings.
C5_TrailingLenIsKernelLen ==
    (fpc = "idle" /\ hist.blocks >= 1) => Len(trailing_samples) = Len(settings_lowpass)

C5_Witness ==
    /\ fpc = "idle"
    /\ Len(hist.kernels) = 2
    /\ Len(hist.kernels[1]) # Len(hist.kernels[2])
    /\ hist.blocks >= 3
    /\ settings_lowpass = hist.kernels[2]
    /\ Len(trailing_samples) = Len(hist.kernels[2])

\* C6: the kernel and last_lowpass_recalculation change only in a refill
\* that recomputes; a refill recomputes exactly when the stored kernel is
\* empty or sample_count - last_lowpass_recalculation > 8192, and then sets
\* last_lowpass_recalculation to sample_count; two consecutive
\* recomputations are more than 8192 returned samples apart.
Recomputes == Len(hist'.kernels) # Len(hist.kernels)
RefillStarts == fpc = "idle" /\ fpc' = "pull"

C6_RecomputeStep ==
    /\ settings_lowpass' # settings_lowpass => Recomputes
    /\ last_lowpass_recalculation' # last_lowpass_recalculation => Recomputes
    /\ Recomputes =>
          /\ RefillStarts
          /\ \/ settings_lowpass = <<>>
             \/ sample_count - last_lowpass_recalculation > RECOMPUTE_INTERVAL
          /\ last_lowpass_recalculation' = sample_count
          /\ settings_lowpass' = hist'.kernels[Len(hist'.kernels)]
    /\ (RefillStarts /\ ~Recomputes) =>
          /\ settings_lowpass # <<>>
          /\ sample_count - last_lowpass_recalculation <= RECOMPUTE_INTERVAL

C6_RecomputesApart ==
    \A i \in 2..Len(hist.recomputed_at) :
        hist.recomputed_at[i] - hist.recomputed_at[i - 1] > RECOMPUTE_INTERVAL

C6_RecomputeOnlyWhenDue == [][C6_RecomputeStep]_vars /\ []C6_RecomputesApart

C6_Witness ==
    /\ Len(hist.recomputed_at) = 2
    /\ hist.blocks >= 3
    /\ last_lowpass_recalculation = hist.recomputed_at[2]

\* C7: a value stored by set_volume before a refill starts is the gain of
\* every sample of that refill's block; set_volume stores its argument
\* unclamped, and does not change the samples that are already buffered.
C7_BlockUsesCurrentGain ==
    /\ settings_volume = hist.last_set
    /\ (fpc = "idle" /\ hist.blocks >= 1) =>
          current_buffer = [k \in 1..Len(hist.block_raw) |->
                                Clamp(hist.block_raw[k] * hist.set_before_refill)]

C7_SetVolumeStep ==
    hist'.sets # hist.sets =>
        /\ settings_volume' \in Volumes
        /\ current_buffer' = current_buffer
        /\ current_buffer_index' = current_buffer_index

C7_NoStaleGain == []C7_BlockUsesCurrentGain /\ [][C7_SetVolumeStep]_vars

C7_Witness ==
    /\ fpc = "idle"
    /\ hist.blocks >= 2
    /\ hist.set_before_refill = One \div 2
    /\ settings_volume = -3 * One
    /\ \E k \in 1..Len(current_buffer) :
          current_buffer[k] # 0 /\ current_buffer[k] = hist.block_raw[k] * (One \div 2)

\* C8: the filter does not hold the settings mutex while it pulls from
\* upstream or while it convolves.
C8_LockNotHeldAcrossPullOrConvolve ==
    fpc \in {"pull", "convolve"} => settings_lock # "filter"

\* C31: set_volume changes the gain and leaves the kernel as it is; a step
\* of the filter never changes the gain, and changes the kernel only in the
\* step that starts a refill and recomputes; the gain changes in no step
\* but a set_volume.
C31_WriterStep ==
    /\ hist'.sets # hist.sets =>
          /\ hist'.sets = hist.sets + 1
          /\ settings_lowpass' = settings_lowpass
          /\ last_lowpass_recalculation' = last_lowpass_recalculation
          /\ hist'.kernels = hist.kernels
          /\ fpc' = fpc
    /\ hist'.sets = hist.sets => settings_volume' = settings_volume
    /\ settings_lowpass' # settings_lowpass =>
          /\ RefillStarts
          /\ Recomputes
          /\ settings_lowpass' = hist'.kernels[Len(hist'.kernels)]
    /\ ~Recomputes => settings_lowpass' = settings_lowpass

C31_DisjointWrites == [][C31_WriterStep]_vars

\* both writers have written: two set_volume calls, and two recomputations
\* that stored different kernels
C31_Witness ==
    /\ hist.sets = 2
    /\ settings_volume # One
    /\ Len(hist.kernels) = 2
    /\ hist.kernels[1] # hist.kernels[2]
    /\ settings_lowpass = hist.kernels[2]

----------------------------------------------------------------------------
(* play (alarm.rs 157-231) and the alarm state it polls (SpecPlay)         *)

\* alarm.rs 192, 215 (seconds) and 211, 225 (milliseconds)
alarm_timeout == 300
fadeout_duration == 5
SleepMillis == 40

\* The clock is read at this granularity (ms): thread::sleep returns at the
\* first clock step at or after its 40 ms (a sleep lasts at least its
\* duration and may last longer), so play's ticks fall on clock steps.
ClockStep == 1000
\* thread::sleep may return later still: by at most this many clock steps
MaxOversleep == 1
\* the clock is followed for this many seconds after the session has stopped
AfterStop == 6
\* the scenario of C10: no cancellation before this many seconds
CancelFlipAt == 310

Milli == 10 ^ 3
DayMillis == 24 * 3600 * Milli

\* a * b and a / b of fixed-point numbers in units of 1/One, rounded down
\* (an f32 operation rounds too); the products are split to stay in 32 bits
MulOne(a, b) == (a * (b \div Milli) + (a * (b % Milli)) \div Milli) \div Milli
RatioOne(a, b) == ((a * Milli) \div b) * Milli + (((a * Milli) % b) * Milli) \div b

\* alarm.rs 24-26: volume(t), t in ms, the result in units of 1/One
\* (0.007 and 0.013 per second are 7 and 13 millionths per millisecond)
volume_first_slope(t) == Min(One, 0 + 7 * t)
volume(t) == Min(One, 0 + 7 * t + Max(0, t - 5 * Milli) * 13)

\* alarm.rs 28-30
smoothstep(x) == 3 * MulOne(x, x) - 2 * MulOne(MulOne(x, x), x)

\* alarm.rs 32-34
fadeout(t, duration) == smoothstep(Max(One - RatioOne(t, duration), 0))

NoTime == [some |-> FALSE, val |-> 0]
SomeTime(v) == [some |-> TRUE, val |-> v]

\* main.rs 101-110: InnerAlarmState::is_trigger_time
is_trigger_time_played(state, time, last_played) ==
    /\ state.enabled
    /\ state.next_alarm = time
    /\ (IF last_played.some THEN time > last_played.val ELSE FALSE)
is_trigger_time(state, time, last_played) ==
    /\ state.enabled
    /\ state.next_alarm = time
    /\ (IF last_played.some THEN time > last_played.val ELSE TRUE)

\* main.rs 86-92: on_alarm_finished stores Some(time) in last_played
on_alarm_finished_skipped(last_played, time) == last_played
on_alarm_finished(last_played, time) == SomeTime(time)

\* alarm.rs 199: `t > alarm_timeout`
TimedOutNever(t) == FALSE
TimedOutLate(t) == t > (alarm_timeout + 10) * Milli
TimedOut(t) == t > alarm_timeout * Milli

\* alarm.rs 219: `t_fadeout >= fadeout_duration`
FadeoutDoneBySessionTime(t, t_fadeout) == t >= fadeout_duration * Milli
FadeoutDoneAtOnce(t, t_fadeout) == TRUE
FadeoutDone(t, t_fadeout) == t_fadeout >= fadeout_duration * Milli

AlarmTimes == {0, DayMillis}

PlayHistInit ==
    [early_flip |-> FALSE,     \* the predicate was made false before CancelFlipAt
     t1_writes |-> 0,          \* how often t1 was assigned
     last_running_tick |-> -1, \* t at the last tick that stayed in the first loop
     stopped_at |-> 0,         \* the clock when the fade-out loop was left
     leave_pred |-> TRUE,      \* is_trigger_time at the tick that left the first loop
     last_fade_write |-> -1]   \* the last gain the fade-out loop wrote (-1: none)

\* A session has just started: play has taken t0 and enters its first loop.
\* should_start_alarm returned trigger_time, so is_trigger_time held then.
PlayInit ==
    /\ now = 0
    /\ play_pc = "running"
    /\ play_wake = 0
    /\ t1 = -1
    /\ manually_cancelled = FALSE
    /\ trigger_time = 0
    /\ inner = [enabled |-> TRUE, next_alarm |-> 0]
    /\ last_played_time \in {NoTime, SomeTime(-DayMillis)}
    /\ sink_stopped = FALSE
    /\ phist = PlayHistInit

\* alarm.rs 197-214: one iteration of the first loop, from waking up to the
\* next sleep; when the loop is left, t1 is taken.
PlayRunningTick ==
    /\ play_pc = "running"
    /\ now >= play_wake
    /\ LET t == now
       IN IF TimedOut(t)
          THEN /\ play_pc' = "fadeout"
               /\ t1' = now
               /\ phist' = [phist EXCEPT
                      !.t1_writes = @ + 1,
                      !.leave_pred = is_trigger_time(inner, trigger_time, last_played_time)]
               /\ UNCHANGED <<manually_cancelled, settings_volume, play_wake>>
          ELSE IF ~is_trigger_time(inner, trigger_time, last_played_time)
          THEN /\ manually_cancelled' = TRUE
               /\ play_pc' = "fadeout"
               /\ t1' = now
               /\ phist' = [phist EXCEPT
                      !.t1_writes = @ + 1,
                      !.leave_pred = is_trigger_time(inner, trigger_time, last_played_time)]
               /\ UNCHANGED <<settings_volume, play_wake>>
          ELSE /\ settings_volume' = volume(t)
               /\ play_wake' = now + SleepMillis
               /\ phist' = [phist EXCEPT !.last_running_tick = t]
               /\ UNCHANGED <<play_pc, t1, manually_cancelled>>
    /\ UNCHANGED <<now, trigger_time, inner, last_played_time, sink_stopped>>
    /\ UNCHANGED nonPlayVars

\* alarm.rs 216-226: one iteration of the fade-out loop.
PlayFadeoutTickRestarting ==
    /\ play_pc = "fadeout"
    /\ now >= play_wake
    /\ LET t == now
           t_fadeout == now - t1
       IN IF FadeoutDone(t, t_fadeout)
          THEN /\ play_pc' = "exit"
               /\ phist' = [phist EXCEPT !.stopped_at = now]
               /\ UNCHANGED <<settings_volume, play_wake, t1>>
          ELSE /\ settings_volume' = MulOne(volume(t), fadeout(0, fadeout_duration * Milli))
               /\ play_wake' = now + SleepMillis
               /\ t1' = now
               /\ phist' = [phist EXCEPT !.t1_writes = @ + 1]
               /\ UNCHANGED play_pc
    /\ UNCHANGED <<now, manually_cancelled, trigger_time, inner,
                   last_played_time, sink_stopped>>
    /\ UNCHANGED nonPlayVars

PlayFadeoutTick ==
    /\ play_pc = "fadeout"
    /\ now >= play_wake
    /\ LET t == now
           t_fadeout == now - t1
       IN IF FadeoutDone(t, t_fadeout)
          THEN /\ play_pc' = "exit"
               /\ phist' = [phist EXCEPT !.stopped_at = now]
               /\ UNCHANGED <<settings_volume, play_wake>>
          ELSE /\ settings_volume' =
                     MulOne(volume(t), fadeout(t_fadeout, fadeout_duration * Milli))
               /\ play_wake' = now + SleepMillis
               /\ phist' = [phist EXCEPT !.last_fade_write = settings_volume']
               /\ UNCHANGED play_pc
    /\ UNCHANGED <<now, t1, manually_cancelled, trigger_time, inner,
                   last_played_time, sink_stopped>>
    /\ UNCHANGED nonPlayVars

\* alarm.rs 228: controller.set_volume(0.0)
PlaySetVolumeZeroSkipped ==
    /\ play_pc = "exit"
    /\ play_pc' = "zeroed"
    /\ UNCHANGED <<now, play_wake, t1, manually_cancelled, trigger_time, inner,
                   last_played_time, sink_stopped, phist, settings_volume>>
    /\ UNCHANGED nonPlayVars
PlaySetVolumeZero ==
    /\ play_pc = "exit"
    /\ settings_volume' = 0
    /\ play_pc' = "zeroed"
    /\ UNCHANGED <<now, play_wake, t1, manually_cancelled, trigger_time, inner,
                   last_played_time, sink_stopped, phist>>
    /\ UNCHANGED nonPlayVars

\* alarm.rs 229: sink.stop()
PlaySinkStop ==
    /\ play_pc = "zeroed"
    /\ sink_stopped' = TRUE
    /\ play_pc' = "sunk"
    /\ UNCHANGED <<now, play_wake, t1, manually_cancelled, trigger_time, inner,
                   last_played_time, settings_volume, phist>>
    /\ UNCHANGED nonPlayVars

\* alarm.rs 231 and main.rs 86-92: on_alarm_finished(trigger_time)
PlayOnAlarmFinished ==
    /\ play_pc = "sunk"
    /\ last_played_time' = on_alarm_finished(last_played_time, trigger_time)
    /\ play_pc' = "stopped"
    /\ UNCHANGED <<now, play_wake, t1, manually_cancelled, trigger_time, inner,
                   sink_stopped, settings_volume, phist>>
    /\ UNCHANGED nonPlayVars

\* main.rs 136-143 (put_state) and 156-170, 182-206 (store_compat,
\* store_inner): the alarm state is replaced, at any moment.
PutState ==
    /\ play_pc # "none"
    /\ \E e \in BOOLEAN, a \in AlarmTimes :
         /\ inner' = [enabled |-> e, next_alarm |-> a]
         /\ inner' # inner
         /\ phist' = [phist EXCEPT !.early_flip =
                         @ \/ (/\ now < CancelFlipAt * Milli
                               /\ ~is_trigger_time(inner', trigger_time, last_played_time))]
    /\ UNCHANGED <<now, play_pc, play_wake, t1, manually_cancelled, trigger_time,
                   last_played_time, sink_stopped, settings_volume>>
    /\ UNCHANGED nonPlayVars

\* The clock moves on by one step.  A sleeping play wakes up at play_wake, or
\* up to MaxOversleep steps late; the statements after the loops take no time.
TimePasses ==
    /\ play_pc \in {"running", "fadeout", "stopped"}
    /\ play_pc \in {"running", "fadeout"} => now < play_wake + MaxOversleep * ClockStep
    /\ play_pc = "stopped" => now < phist.stopped_at + AfterStop * Milli
    /\ now' = now + ClockStep
    /\ UNCHANGED <<play_pc, play_wake, t1, manually_cancelled, trigger_time, inner,
                   last_played_time, sink_stopped, phist, settings_volume>>
    /\ UNCHANGED nonPlayVars

InitPlay ==
    /\ ConvIdle
    /\ FilterIdle
    /\ PlayInit
    /\ MonitorIdle
    /\ ThreadIdle
    /\ OthersIdle
NextPlay ==
    \/ PlayRunningTick
    \/ PlayFadeoutTick
    \/ PlaySetVolumeZero
    \/ PlaySinkStop
    \/ PlayOnAlarmFinished
    \/ PutState
    \/ TimePasses
SpecPlay == InitPlay /\ [][NextPlay]_vars

----------------------------------------------------------------------------
(* Properties of play *)

LeftRunning == play_pc \in {"fadeout", "exit", "zeroed", "sunk", "stopped"}

\* C9: the fade-out start t1 is taken once, at the tick that leaves the
\* Running loop; from then on no step returns to Running or changes t1, and
\* the fade time now - t1 never decreases.
C9_FadeoutStep ==
    /\ (play_pc = "running" /\ play_pc' # "running") =>
          play_pc' = "fadeout" /\ t1' = now
    /\ LeftRunning =>
          /\ play_pc' # "running"
          /\ t1' = t1
          /\ now' - t1' >= now - t1

C9_FadeoutStartedOnce ==
    /\ phist.t1_writes = (IF LeftRunning THEN 1 ELSE 0)
    /\ LeftRunning => (t1 >= 0 /\ now >= t1)

C9_FadeoutStartRecordedOnce == [][C9_FadeoutStep]_vars /\ []C9_FadeoutStartedOnce

C9_Witness ==
    /\ play_pc = "fadeout"
    /\ manually_cancelled
    /\ now - t1 >= 3 * Milli
    /\ 0 < settings_volume
    /\ settings_volume < volume(now)

\* C10: with alarm_timeout = 300 s and fadeout_duration = 5 s, when the
\* predicate is not made false before 310 s, the session is still Running at
\* every tick up to 300 s, enters the fade-out at the first tick after 300 s
\* without being marked cancelled, leaves the fade-out loop at the first tick
\* at least 5 s after the fade-out started, and takes t1 only once.
TickGap == (1 + MaxOversleep) * ClockStep

C10_TimeoutScenario ==
    (LeftRunning /\ ~phist.early_flip) =>
        /\ ~manually_cancelled
        /\ phist.t1_writes = 1
        /\ phist.last_running_tick <= alarm_timeout * Milli
        /\ t1 > alarm_timeout * Milli
        /\ t1 - phist.last_running_tick <= TickGap
        /\ play_pc = "fadeout" => now - t1 < fadeout_duration * Milli + TickGap
        /\ play_pc # "fadeout" =>
              /\ phist.stopped_at - t1 >= fadeout_duration * Milli
              /\ phist.stopped_at - t1 < fadeout_duration * Milli + TickGap

C10_Witness ==
    /\ play_pc = "stopped"
    /\ ~phist.early_flip
    /\ t1 = alarm_timeout * Milli + ClockStep
    /\ phist.stopped_at = t1 + fadeout_duration * Milli
    /\ sink_stopped
    /\ now >= CancelFlipAt * Milli
    /\ ~inner.enabled

\* C11: when a session stops, the gain is forced to exactly 0 after the last
\* write of the fade-out loop and before sink.stop(); nothing writes the gain
\* after that 0; last_played_time becomes the session's trigger time only
\* after the sink has been stopped.
AfterZero == play_pc \in {"zeroed", "sunk", "stopped"}

C11_StopOrder ==
    /\ AfterZero => settings_volume = 0
    /\ sink_stopped <=> play_pc \in {"sunk", "stopped"}
    /\ play_pc # "stopped" => last_played_time # SomeTime(trigger_time)
    /\ play_pc = "stopped" => (last_played_time = SomeTime(trigger_time) /\ sink_stopped)

C11_StopStep ==
    /\ (~AfterZero /\ AfterZero') =>
          (play_pc = "exit" /\ play_pc' = "zeroed" /\ settings_volume' = 0 /\ ~sink_stopped')
    /\ AfterZero => (AfterZero' /\ settings_volume' = settings_volume)
    /\ (~sink_stopped /\ sink_stopped') => (play_pc = "zeroed" /\ settings_volume = 0)
    /\ last_played_time' # last_played_time =>
          (sink_stopped /\ settings_volume = 0 /\ last_played_time' = SomeTime(trigger_time))

C11_GainZeroThenStop == []C11_StopOrder /\ [][C11_StopStep]_vars

C11_Witness ==
    /\ play_pc = "stopped"
    /\ phist.last_fade_write > 0
    /\ settings_volume = 0
    /\ sink_stopped
    /\ last_played_time = SomeTime(trigger_time)

\* C12: manually_cancelled is true exactly when the first loop was left at a
\* tick where the timeout had not elapsed and is_trigger_time was false; a
\* session that left on the timeout stays not cancelled, whatever the
\* predicate does during the fade-out.
C12_CancelledIffPredicateFalse ==
    /\ ~LeftRunning => ~manually_cancelled
    /\ LeftRunning =>
          (manually_cancelled <=>
              (~phist.leave_pred /\ ~(t1 > alarm_timeout * Milli)))

\* left on the timeout with the predicate true, and disabled during the fade-out
C12_Witness ==
    /\ play_pc = "sunk"
    /\ t1 > alarm_timeout * Milli
    /\ phist.leave_pred
    /\ ~inner.enabled
    /\ ~manually_cancelled

\* C13: a tick of the first loop that finds is_trigger_time false leaves the
\* loop at that tick without writing a gain; the sink is stopped only from
\* the end of a fade-out that lasted at least fadeout_duration, never from
\* the first loop.
RunningTickStep ==
    /\ play_pc = "running"
    /\ now' = now
    /\ inner' = inner
    /\ <<play_pc, play_wake, phist>>' # <<play_pc, play_wake, phist>>

C13_CancelStep ==
    /\ (RunningTickStep
         /\ ~(/\ inner.enabled
              /\ inner.next_alarm = trigger_time
              /\ (last_played_time.some => trigger_time > last_played_time.val))) =>
          (play_pc' = "fadeout" /\ t1' = now /\ settings_volume' = settings_volume)
    /\ play_pc = "running" => (play_pc' \in {"running", "fadeout"} /\ ~sink_stopped')

C13_StopAfterFade ==
    /\ play_pc = "running" => ~sink_stopped
    /\ play_pc \in {"exit", "zeroed", "sunk", "stopped"} =>
          phist.stopped_at - t1 >= fadeout_duration * Milli
    /\ sink_stopped => (t1 >= 0 /\ phist.stopped_at - t1 >= fadeout_duration * Milli)

C13_CancelFadesBeforeStop == [][C13_CancelStep]_vars /\ []C13_StopAfterFade

C13_Witness ==
    /\ sink_stopped
    /\ manually_cancelled
    /\ t1 < 100 * Milli
    /\ phist.last_fade_write > 0
    /\ phist.stopped_at - t1 >= fadeout_duration * Milli

----------------------------------------------------------------------------
\* C14: every call of next() returns a sample: no call panics or hangs, a
\* refill in progress ends with a sample buffered, every sample returned is
\* counted, and every sample that rests only on the zero padding after the
\* end of the upstream is exactly 0.
SampleBuffered == fpc = "idle" /\ current_buffer_index < Len(current_buffer)

C14_NoFailure ==
    /\ fpc \in {"idle", "pull", "convolve"}
    /\ Len(hist.emitted) = sample_count
    /\ \A n \in 1..Len(hist.emitted) :
          n - 1 >= Len(hist.source) => hist.emitted[n] = 0

C14_AlwaysASample ==
    /\ []C14_NoFailure
    /\ (fpc \in {"pull", "convolve"}) ~> SampleBuffered

\* the upstream was shorter than a frame, and samples past its end were returned
C14_Witness ==
    /\ Len(hist.source) = 1
    /\ input = <<>>
    /\ hist.blocks >= 2
    /\ Len(hist.emitted) >= 6
    /\ hist.emitted[1] # 0
    /\ hist.emitted[6] = 0

\* C15 as stated: with every kernel even, not empty and shorter than a block
\* (frame_size positive), every refill builds an input at least as long as
\* the kernel, passes the assertion and convolve's preconditions, and ends.
KernelsFrameSizePositive ==
    \A i \in 1..Len(hist.kernels) :
        /\ Len(hist.kernels[i]) % 2 = 0
        /\ Len(hist.kernels[i]) > 0
        /\ BLOCK_SIZE - Len(hist.kernels[i]) > 0

KernelsHalfBlock ==
    \A i \in 1..Len(hist.kernels) :
        /\ Len(hist.kernels[i]) % 2 = 0
        /\ Len(hist.kernels[i]) > 0
        /\ BLOCK_SIZE - Len(hist.kernels[i]) >= Len(hist.kernels[i])

RefillSucceeds ==
    /\ fpc \in {"idle", "pull", "convolve"}
    /\ fpc = "convolve" =>
          /\ Len(input_buffer) >= Len(settings_lowpass)
          /\ Len(current_buffer) = Len(input_buffer) - Len(settings_lowpass)
          /\ ~convolve(settings_lowpass, input_buffer, current_buffer, "debug").panicked
          /\ ~convolve(settings_lowpass, input_buffer, current_buffer, "release").panicked

C15_FrameSizePositiveSuffices == KernelsFrameSizePositive => RefillSucceeds

\* C15, amended: with every kernel even, not empty and no longer than
\* frame_size (kernel.len() <= 1024 - kernel.len()), every refill succeeds.
C15_HalfBlockKernelSuffices == KernelsHalfBlock => RefillSucceeds

\* the first refill, where trailing_samples is empty, with the longest such
\* kernel: frame_size samples are just enough
C15_Witness ==
    /\ KernelsHalfBlock
    /\ fpc = "convolve"
    /\ hist.blocks = 0
    /\ lowpass_designs # Kernels
    /\ 2 * Len(settings_lowpass) = BLOCK_SIZE
    /\ Len(input_buffer) = Len(settings_lowpass)

----------------------------------------------------------------------------
(* start_alarm_thread (alarm.rs 298-354) (SpecThread)                       *)

\* alarm.rs 352: the loop sleeps 500 ms between two polls
PollMillis == 500
\* alarm.rs 307: DateDuration::minutes(30)
MotionMargin == 30 * 60 * Milli

\* polls and state changes in a run
MaxPolls == 6
MaxStores == 2

\* how long a call of play lasts: a session cancelled at once and faded out,
\* and one that ran into the timeout
SessionMillis == {fadeout_duration * Milli, (alarm_timeout + 1 + fadeout_duration) * Milli}

\* the clock when the loop starts: before the motion margin of the alarm at
\* 0, inside the margin, and just before each alarm
StartTimes == {0 - MotionMargin - PollMillis, 0 - 2 * PollMillis, DayMillis - PollMillis}

\* what random_alarm_sound returns (alarm.rs 281-296)
SoundOutcomes == {"Ok", "NoFiles", "CouldNotReadDir"}

\* main.rs 61-76: should_start_alarm_soon on a snapshot of the state; the
\* assertion of line 71 panics when it fails
should_start_alarm_soon_again(state, last_played, utc_now, margin) ==
    IF /\ state.enabled
       /\ utc_now + margin >= state.next_alarm
       /\ (IF last_played.some THEN state.next_alarm >= last_played.val ELSE TRUE)
    THEN [some |-> TRUE, val |-> state.next_alarm, panicked |-> FALSE]
    ELSE [some |-> FALSE, val |-> 0, panicked |-> FALSE]
should_start_alarm_soon(state, last_played, utc_now, margin) ==
    IF /\ state.enabled
       /\ utc_now + margin >= state.next_alarm
       /\ (IF last_played.some THEN state.next_alarm > last_played.val ELSE TRUE)
    THEN [some |-> TRUE, val |-> state.next_alarm,
          panicked |-> ~is_trigger_time(state, state.next_alarm, last_played)]
    ELSE [some |-> FALSE, val |-> 0, panicked |-> FALSE]

\* main.rs 56-58
should_start_alarm(state, last_played, utc_now) ==
    should_start_alarm_soon(state, last_played, utc_now, 0)

ThreadHistInit ==
    [polls |-> 0,                            \* polls so far
     stores |-> 0,                           \* state changes so far
     tries |-> [a \in AlarmTimes |-> 0],     \* sounds looked for, per trigger time (up to 2)
     sessions |-> 0,                         \* calls of play (up to 2)
     outcome |-> "none",                     \* what random_alarm_sound returned last
     unplayable |-> NoTime,                  \* the last trigger given up for lack of a sound
     none_since |-> 0]                       \* polls since then that found nothing to start (up to 2)

ThreadInit ==
    /\ th_pc = "poll"
    /\ th_trigger = [some |-> FALSE, val |-> 0]
    /\ is_playing = FALSE
    /\ thist = ThreadHistInit

\* the alarm state the loop starts with (synced from the storage, main.rs 283-299)
ThreadStateInit ==
    /\ now \in StartTimes
    /\ play_pc = "none"
    /\ play_wake = 0
    /\ t1 = -1
    /\ manually_cancelled = FALSE
    /\ trigger_time = 0
    /\ inner \in [enabled : BOOLEAN, next_alarm : AlarmTimes]
    /\ last_played_time \in {NoTime, SomeTime(0 - DayMillis)}
    /\ sink_stopped = FALSE
    /\ phist = <<>>

\* alarm.rs 300-318: one poll.  With the motion feature, an alarm that is due
\* within 30 minutes starts when there is significant movement.
ThreadPoll ==
    /\ th_pc = "poll"
    /\ thist.polls < MaxPolls
    /\ \E motion \in BOOLEAN, movement \in BOOLEAN :
         LET due == should_start_alarm(inner, last_played_time, now)
             soon == should_start_alarm_soon(inner, last_played_time, now, MotionMargin)
             found == IF motion /\ soon.some /\ movement THEN soon ELSE due
         IN IF due.panicked \/ (motion /\ soon.panicked)
            THEN /\ th_pc' = "panicked"
                 /\ UNCHANGED th_trigger
                 /\ thist' = [thist EXCEPT !.polls = @ + 1]
            ELSE IF found.some
            THEN /\ th_pc' = "select"
                 /\ th_trigger' = SomeTime(found.val)
                 /\ thist' = [thist EXCEPT !.polls = @ + 1]
            ELSE /\ th_pc' = "sleep"
                 /\ th_trigger' = NoTime
                 /\ thist' = [thist EXCEPT
                        !.polls = @ + 1,
                        !.none_since = IF thist.unplayable.some THEN Min(@ + 1, 2) ELSE @]
    /\ UNCHANGED <<is_playing>>
    /\ UNCHANGED <<cvVars, filterVars, playVars, monitorVars, retryVars, callVars, sleepVars>>

\* alarm.rs 319-347: a sound is looked for.  With a sound the session starts
\* (is_playing is published first); without one the trigger is given up.
ThreadSelectSound ==
    /\ th_pc = "select"
    /\ \E outcome \in SoundOutcomes :
         /\ thist' = [thist EXCEPT
                !.outcome = outcome,
                !.tries = [a \in DOMAIN @ |->
                              IF a = th_trigger.val THEN Min(@[a] + 1, 2) ELSE @[a]],
                !.sessions = IF outcome = "Ok" THEN Min(@ + 1, 2) ELSE @,
                !.unplayable = IF outcome = "Ok" THEN @ ELSE th_trigger,
                !.none_since = IF outcome = "Ok" THEN @ ELSE 0]
         /\ IF outcome = "Ok"
            THEN /\ is_playing' = TRUE
                 /\ th_pc' = "playing"
                 /\ UNCHANGED last_played_time
            ELSE /\ last_played_time' = on_alarm_finished(last_played_time, th_trigger.val)
                 /\ th_pc' = "sleep"
                 /\ UNCHANGED is_playing
    /\ UNCHANGED <<th_trigger>>
    /\ UNCHANGED <<now, play_pc, play_wake, t1, manually_cancelled, trigger_time, inner,
                   sink_stopped, phist>>
    /\ UNCHANGED <<cvVars, filterVars, monitorVars, retryVars, callVars, sleepVars>>

\* alarm.rs 328-342: play has returned (it ends with on_alarm_finished,
\* alarm.rs 231), and is_playing is published as false.
ThreadPlayReturns ==
    /\ th_pc = "playing"
    /\ \E d \in SessionMillis : now' = now + d
    /\ last_played_time' = on_alarm_finished(last_played_time, th_trigger.val)
    /\ is_playing' = FALSE
    /\ th_pc' = "sleep"
    /\ UNCHANGED <<th_trigger, thist>>
    /\ UNCHANGED <<play_pc, play_wake, t1, manually_cancelled, trigger_time, inner,
                   sink_stopped, phist>>
    /\ UNCHANGED <<cvVars, filterVars, monitorVars, retryVars, callVars, sleepVars>>

\* alarm.rs 352: tokio::time::sleep(500 ms)
ThreadSleep ==
    /\ th_pc = "sleep"
    /\ now' = now + PollMillis
    /\ th_pc' = "poll"
    /\ UNCHANGED <<th_trigger, is_playing, thist>>
    /\ UNCHANGED <<play_pc, play_wake, t1, manually_cancelled, trigger_time, inner,
                   last_played_time, sink_stopped, phist>>
    /\ UNCHANGED <<cvVars, filterVars, monitorVars, retryVars, callVars, sleepVars>>

\* main.rs 136-143 (put_state) and 156-170, 182-206 (store_compat,
\* store_inner) while the loop runs
ThreadPutState ==
    /\ th_pc # "none"
    /\ thist.stores < MaxStores
    /\ \E st \in [enabled : BOOLEAN, next_alarm : AlarmTimes] :
         /\ st # inner
         /\ inner' = st
    /\ thist' = [thist EXCEPT !.stores = @ + 1]
    /\ UNCHANGED <<th_pc, th_trigger, is_playing>>
    /\ UNCHANGED <<now, play_pc, play_wake, t1, manually_cancelled, trigger_time,
                   last_played_time, sink_stopped, phist>>
    /\ UNCHANGED <<cvVars, filterVars, monitorVars, retryVars, callVars, sleepVars>>

InitThread == ConvIdle /\ FilterIdle /\ ThreadStateInit /\ MonitorIdle /\ ThreadInit /\ OthersIdle
NextThread ==
    \/ ThreadPoll
    \/ ThreadSelectSound
    \/ ThreadPlayReturns
    \/ ThreadSleep
    \/ ThreadPutState
SpecThread == InitThread /\ [][NextThread]_vars

\* C20: when a trigger is due and random_alarm_sound fails (NoFiles or
\* CouldNotReadDir), no session starts and last_played_time becomes the
\* trigger time; while last_played_time stays there the polls find nothing
\* to start for that trigger, and no trigger time is tried twice.
C20_GiveUpStep ==
    /\ (th_pc = "select" /\ th_pc' # "select"
         /\ thist'.outcome \in {"NoFiles", "CouldNotReadDir"}) =>
          /\ th_pc' = "sleep"
          /\ ~is_playing'
          /\ thist'.sessions = thist.sessions
          /\ last_played_time' = SomeTime(th_trigger.val)
    /\ (th_pc = "poll" /\ th_pc' = "select") =>
          ~(thist.unplayable.some /\ th_trigger'.val <= thist.unplayable.val)

C20_TriedOnce ==
    /\ \A a \in AlarmTimes : thist.tries[a] <= 1
    /\ th_pc \in {"poll", "select", "playing", "sleep"}

C20_UnplayableIsAcknowledged == [][C20_GiveUpStep]_vars /\ []C20_TriedOnce

\* the alarm of time 0 was given up for lack of a sound; it is still enabled
\* and due, and two later polls started nothing
C20_Witness ==
    /\ thist.unplayable = SomeTime(0)
    /\ thist.outcome = "NoFiles"
    /\ thist.sessions = 0
    /\ thist.none_since = 2
    /\ inner = [enabled |-> TRUE, next_alarm |-> 0]
    /\ now >= 0
    /\ last_played_time = SomeTime(0)
    /\ ~is_playing

----------------------------------------------------------------------------
(* One turn of start_alarm_thread statement by statement, with play on the  *)
(* blocking pool (alarm.rs 319-347) (SpecSession)                           *)
(*                                                                          *)
(* The loop is at "poll", "select" (random_alarm_sound), "publish" (before  *)
(* is_playing.set(true)), "spawn" (before spawn_blocking), "awaiting" (the  *)
(* JoinHandle), "returned" (before is_playing.set(false)) or "sleep"; the   *)
(* call of play is "none", "running" or "stopped" (play_pc).                *)

\* alarm.rs 319-323 and 343-346: random_alarm_sound; without a sound the
\* trigger is given up
SessionSelectSound ==
    /\ th_pc = "select"
    /\ \E outcome \in SoundOutcomes :
         /\ thist' = [thist EXCEPT !.outcome = outcome]
         /\ IF outcome = "Ok"
            THEN /\ th_pc' = "publish"
                 /\ UNCHANGED last_played_time
            ELSE /\ last_played_time' = on_alarm_finished(last_played_time, th_trigger.val)
                 /\ th_pc' = "sleep"
    /\ UNCHANGED <<th_trigger, is_playing>>
    /\ UNCHANGED <<now, play_pc, play_wake, t1, manually_cancelled, trigger_time, inner,
                   sink_stopped, phist>>
    /\ UNCHANGED <<cvVars, filterVars, monitorVars, retryVars, callVars, sleepVars>>

\* alarm.rs 324-328: is_playing.set(true).await
SessionPublishPlaying ==
    /\ th_pc = "publish"
    /\ is_playing' = TRUE
    /\ th_pc' = "spawn"
    /\ UNCHANGED <<th_trigger, thist>>
    /\ UNCHANGED <<now, play_pc, play_wake, t1, manually_cancelled, trigger_time, inner,
                   last_played_time, sink_stopped, phist>>
    /\ UNCHANGED <<cvVars, filterVars, monitorVars, retryVars, callVars, sleepVars>>

\* alarm.rs 329-334: spawn_blocking(play)
SessionPlayStarts ==
    /\ th_pc = "spawn"
    /\ play_pc' = "running"
    /\ th_pc' = "awaiting"
    /\ thist' = [thist EXCEPT !.sessions = Min(@ + 1, 2)]
    /\ UNCHANGED <<th_trigger, is_playing>>
    /\ UNCHANGED <<now, play_wake, t1, manually_cancelled, trigger_time, inner,
                   last_played_time, sink_stopped, phist>>
    /\ UNCHANGED <<cvVars, filterVars, monitorVars, retryVars, callVars, sleepVars>>

\* alarm.rs 157-231: play runs on its own thread and ends with
\* on_alarm_finished(trigger_time)
SessionPlayEnds ==
    /\ play_pc = "running"
    /\ \E d \in SessionMillis : now' = now + d
    /\ last_played_time' = on_alarm_finished(last_played_time, th_trigger.val)
    /\ play_pc' = "stopped"
    /\ UNCHANGED <<th_pc, th_trigger, is_playing, thist>>
    /\ UNCHANGED <<play_wake, t1, manually_cancelled, trigger_time, inner,
                   sink_stopped, phist>>
    /\ UNCHANGED <<cvVars, filterVars, monitorVars, retryVars, callVars, sleepVars>>

\* alarm.rs 335-336: `.await.unwrap()` on the JoinHandle returns when play
\* has returned
SessionJoinEarly ==
    /\ th_pc = "awaiting"
    /\ th_pc' = "returned"
    /\ UNCHANGED <<play_pc, th_trigger, is_playing, thist>>
    /\ UNCHANGED <<now, play_wake, t1, manually_cancelled, trigger_time, inner,
                   last_played_time, sink_stopped, phist>>
    /\ UNCHANGED <<cvVars, filterVars, monitorVars, retryVars, callVars, sleepVars>>
SessionJoin ==
    /\ th_pc = "awaiting"
    /\ play_pc = "stopped"
    /\ play_pc' = "none"
    /\ th_pc' = "returned"
    /\ UNCHANGED <<th_trigger, is_playing, thist>>
    /\ UNCHANGED <<now, play_wake, t1, manually_cancelled, trigger_time, inner,
                   last_played_time, sink_stopped, phist>>
    /\ UNCHANGED <<cvVars, filterVars, monitorVars, retryVars, callVars, sleepVars>>

\* alarm.rs 338-342: is_playing.set(false).await
SessionPublishStopped ==
    /\ th_pc = "returned"
    /\ is_playing' = FALSE
    /\ th_pc' = "sleep"
    /\ UNCHANGED <<th_trigger, thist>>
    /\ UNCHANGED <<now, play_pc, play_wake, t1, manually_cancelled, trigger_time, inner,
                   last_played_time, sink_stopped, phist>>
    /\ UNCHANGED <<cvVars, filterVars, monitorVars, retryVars, callVars, sleepVars>>

InitSession == ConvIdle /\ FilterIdle /\ ThreadStateInit /\ MonitorIdle /\ ThreadInit /\ OthersIdle
NextSession ==
    \/ ThreadPoll
    \/ SessionSelectSound
    \/ SessionPublishPlaying
    \/ SessionPlayStarts
    \/ SessionPlayEnds
    \/ SessionJoin
    \/ SessionPublishStopped
    \/ ThreadSleep
    \/ ThreadPutState
SpecSession == InitSession /\ [][NextSession]_vars

\* C33: the loop has at most one call of play at a time: play is started
\* only when no call is in progress, and the loop goes on only when the call
\* has returned; is_playing is set to true before the call starts and to
\* false after it has returned, so it is true as long as a call is in
\* progress, and false everywhere outside the span from set(true) to
\* set(false), which holds exactly one call.
C33_FlagCoversCall ==
    /\ play_pc \in {"running", "stopped"} => (is_playing /\ th_pc = "awaiting")
    /\ is_playing <=> th_pc \in {"spawn", "awaiting", "returned"}
    /\ th_pc \in {"poll", "select", "publish", "sleep"} => (play_pc = "none" /\ ~is_playing)

C33_SessionStep ==
    /\ (play_pc # "running" /\ play_pc' = "running") =>
          (play_pc = "none" /\ is_playing /\ is_playing')
    /\ (is_playing /\ ~is_playing') => (play_pc = "none" /\ play_pc' = "none")
    /\ (~is_playing /\ is_playing') => (play_pc = "none" /\ play_pc' = "none")
    /\ (th_pc = "awaiting" /\ th_pc' # "awaiting") => (play_pc = "stopped" /\ play_pc' = "none")

----------------------------------------------------------------------------
(* start_alarm_thread with the retry task play spawns in the motion build   *)
(* (alarm.rs 233-270) (SpecRetry)                                           *)
(*                                                                          *)
(* A session is followed from the loop's side: play's first loop either     *)
(* runs into the timeout or is left at a tick that finds is_trigger_time    *)
(* false; then the fade-out, on_alarm_finished and the spawn of the retry   *)
(* task.  The task sleeps 15 minutes, reads the state, and re-arms the      *)
(* alarm with two updates, each awaited on its own.                         *)

\* alarm.rs 239: tokio::time::sleep(15 * 60 s)
RetryDelay == 15 * 60 * Milli
\* alarm.rs 257: Utc::now() - DateDuration::seconds(1)
RearmBackdate == 1 * Milli

\* runs of polls that find nothing, taken in one step
MaxIdles == 2
\* polls and state changes in a run with retry tasks
MaxRetryPolls == 5
MaxRetryStores == 1

\* Option<DateTime>::min (alarm.rs 255-257): None is less than every Some
OptionMin(a, b) ==
    IF ~a.some THEN a
    ELSE IF ~b.some THEN b
    ELSE IF a.val <= b.val THEN a ELSE b

RetryHistInit ==
    [idles |-> 0,        \* runs of idle polls so far
     finished |-> {},    \* triggers whose session finished since a re-arm last lowered last_played
     rearms |-> 0,       \* completed re-arms (up to 2)
     rearmed |-> NoTime, \* the next_alarm the last completed re-arm wrote, until a session starts for it
     stores |-> 0,       \* thist.stores when the last re-arm completed
     early |-> FALSE]    \* the last completed re-arm was made before its session's trigger time

RetryInit ==
    /\ retry_tasks = {}
    /\ rhist = RetryHistInit

\* alarm.rs 197-201: the first loop of play finds is_trigger_time true at
\* every tick until t > alarm_timeout
RetrySessionTimesOut ==
    /\ th_pc = "playing"
    /\ is_trigger_time(inner, th_trigger.val, last_played_time)
    /\ now' = now + (alarm_timeout + 1) * Milli
    /\ manually_cancelled' = FALSE
    /\ th_pc' = "fading"
    /\ UNCHANGED <<th_trigger, is_playing, thist, retryVars>>
    /\ UNCHANGED <<play_pc, play_wake, t1, trigger_time, inner, last_played_time,
                   sink_stopped, phist>>
    /\ UNCHANGED <<cvVars, filterVars, monitorVars, callVars, sleepVars>>

\* alarm.rs 202-205: a tick of the first loop finds is_trigger_time false
RetrySessionCancelled ==
    /\ th_pc = "playing"
    /\ ~is_trigger_time(inner, th_trigger.val, last_played_time)
    /\ manually_cancelled' = TRUE
    /\ th_pc' = "fading"
    /\ UNCHANGED <<th_trigger, is_playing, thist, retryVars>>
    /\ UNCHANGED <<now, play_pc, play_wake, t1, trigger_time, inner, last_played_time,
                   sink_stopped, phist>>
    /\ UNCHANGED <<cvVars, filterVars, monitorVars, callVars, sleepVars>>

\* what the spawned task does with manually_cancelled (alarm.rs 236-239):
\* nothing when the session was cancelled, else it sleeps RetryDelay
SpawnRetry(tasks, cancelled, trigger, at) ==
    IF cancelled THEN tasks
    ELSE tasks \cup {[trigger |-> trigger, wake |-> at + RetryDelay, pc |-> "sleeping"]}

\* alarm.rs 214-236 and 338-342: the fade-out, on_alarm_finished, the spawn of
\* the retry task; play returns and is_playing is published as false
RetrySessionReturns ==
    /\ th_pc = "fading"
    /\ now' = now + fadeout_duration * Milli
    /\ last_played_time' = on_alarm_finished(last_played_time, th_trigger.val)
    /\ retry_tasks' = SpawnRetry(retry_tasks, manually_cancelled, th_trigger.val, now')
    /\ rhist' = [rhist EXCEPT !.finished = @ \cup {th_trigger.val}]
    /\ is_playing' = FALSE
    /\ th_pc' = "sleep"
    /\ UNCHANGED <<th_trigger, thist>>
    /\ UNCHANGED <<play_pc, play_wake, t1, manually_cancelled, trigger_time, inner,
                   sink_stopped, phist>>
    /\ UNCHANGED <<cvVars, filterVars, monitorVars, callVars, sleepVars>>

\* alarm.rs 300-352, repeated: polls that find nothing to start, 500 ms
\* apart, until the next retry task is due.  The tests of
\* should_start_alarm_soon only become true as the clock grows, so a run
\* whose last poll finds nothing found nothing before.
RetryIdlePolls ==
    /\ th_pc = "sleep"
    /\ rhist.idles < MaxIdles
    /\ now' = now + RetryDelay
    /\ ~should_start_alarm_soon(inner, last_played_time, now' - PollMillis, MotionMargin).some
    /\ \A r \in retry_tasks : r.pc = "sleeping" => r.wake >= now'
    /\ rhist' = [rhist EXCEPT !.idles = @ + 1]
    /\ UNCHANGED <<th_pc, th_trigger, is_playing, thist, retry_tasks>>
    /\ UNCHANGED <<play_pc, play_wake, t1, manually_cancelled, trigger_time, inner,
                   last_played_time, sink_stopped, phist>>
    /\ UNCHANGED <<cvVars, filterVars, monitorVars, callVars, sleepVars>>

\* alarm.rs 240-249: what the task requires of the state it reads
RetryWanted(prev_state, trigger, present) ==
    /\ prev_state.enabled
    /\ prev_state.next_alarm = trigger
    /\ present

\* alarm.rs 239-249: the task wakes up, reads the alarm state and asks the
\* sleep monitor is_present
RetryCheck ==
    \E r \in retry_tasks, present \in BOOLEAN :
        /\ r.pc = "sleeping"
        /\ now >= r.wake
        /\ retry_tasks' =
              IF RetryWanted(inner, r.trigger, present)
              THEN (retry_tasks \ {r}) \cup {[r EXCEPT !.pc = "update_last"]}
              ELSE retry_tasks \ {r}
        /\ UNCHANGED <<rhist, threadVars, playVars>>
        /\ UNCHANGED <<cvVars, filterVars, monitorVars, callVars, sleepVars>>

\* alarm.rs 250-259: last_played.update(min(last_played_time, now - 1 s))
RetryUpdateLast ==
    \E r \in retry_tasks :
        /\ r.pc = "update_last"
        /\ last_played_time' = OptionMin(last_played_time, SomeTime(now - RearmBackdate))
        /\ retry_tasks' = (retry_tasks \ {r}) \cup {[r EXCEPT !.pc = "update_inner"]}
        /\ rhist' = [rhist EXCEPT
               !.finished = IF last_played_time' # last_played_time THEN {} ELSE @]
        /\ UNCHANGED <<now, play_pc, play_wake, t1, manually_cancelled, trigger_time,
                       inner, sink_stopped, phist>>
        /\ UNCHANGED <<threadVars, cvVars, filterVars, monitorVars, callVars, sleepVars>>

\* alarm.rs 260-266: inner.update(enabled = true, next_alarm = now); the task ends
RetryUpdateInner ==
    \E r \in retry_tasks :
        /\ r.pc = "update_inner"
        /\ inner' = [enabled |-> TRUE, next_alarm |-> now]
        /\ retry_tasks' = retry_tasks \ {r}
        /\ rhist' = [rhist EXCEPT
               !.rearms = Min(@ + 1, 2),
               !.rearmed = SomeTime(now),
               !.stores = thist.stores,
               !.early = now < r.trigger]
        /\ UNCHANGED <<now, play_pc, play_wake, t1, manually_cancelled, trigger_time,
                       last_played_time, sink_stopped, phist>>
        /\ UNCHANGED <<threadVars, cvVars, filterVars, monitorVars, callVars, sleepVars>>

\* the loop starts with an alarm that is enabled and was never played
RetryStateInit ==
    /\ ThreadStateInit
    /\ inner.enabled
    /\ last_played_time = NoTime

InitRetry ==
    /\ ConvIdle /\ FilterIdle /\ RetryStateInit /\ MonitorIdle /\ ThreadInit
    /\ RetryInit /\ CallIdle /\ SleepingIdle
NextRetry ==
    \/ (thist.polls < MaxRetryPolls /\ ThreadPoll)
    \/ ThreadSelectSound
    \/ ThreadSleep
    \/ (thist.stores < MaxRetryStores /\ ThreadPutState)
    \/ RetrySessionTimesOut
    \/ RetrySessionCancelled
    \/ RetrySessionReturns
    \/ RetryIdlePolls
    \/ RetryCheck
    \/ RetryUpdateLast
    \/ RetryUpdateInner
SpecRetry == InitRetry /\ [][NextRetry]_vars

----------------------------------------------------------------------------
(* Properties of the alarm loop with its retry tasks *)

\* the margins should_start_alarm_soon is called with (main.rs 57, alarm.rs 307)
Margins == {0, MotionMargin}

\* C21: when a session for trigger time T has finished, last_played_time is
\* T and is_trigger_time(T) is false; while next_alarm is at most
\* last_played_time, should_start_alarm and should_start_alarm_soon return
\* None; and the loop starts no second session for a trigger time unless a
\* re-arm has lowered last_played_time since the first one finished.
C21_Deduplicated ==
    (last_played_time.some /\ inner.next_alarm <= last_played_time.val) =>
        /\ ~is_trigger_time(inner, last_played_time.val, last_played_time)
        /\ \A margin \in Margins :
              ~should_start_alarm_soon(inner, last_played_time, now, margin).some

C21_SessionStep ==
    /\ (th_pc = "fading" /\ th_pc' = "sleep") =>
          /\ last_played_time' = SomeTime(th_trigger.val)
          /\ ~is_trigger_time(inner', th_trigger.val, last_played_time')
    /\ (th_pc = "select" /\ th_pc' = "playing") =>
          /\ th_trigger.val \notin rhist.finished
          /\ is_playing'

C29_RetryStep ==
    /\ (th_pc = "fading" /\ th_pc' = "sleep" /\ manually_cancelled) =>
          retry_tasks' = retry_tasks
    /\ \A r \in retry_tasks' \ retry_tasks :
          /\ r.pc = "sleeping" => (th_pc = "fading" /\ ~manually_cancelled)
          /\ r.pc = "update_last" => (inner.enabled /\ inner.next_alarm = r.trigger)
    /\ rhist'.rearms # rhist.rearms => inner' = [enabled |-> TRUE, next_alarm |-> now]

C29_Rearmed ==
    (/\ rhist.rearmed.some
     /\ thist.stores = rhist.stores
     /\ inner = [enabled |-> TRUE, next_alarm |-> rhist.rearmed.val]
     /\ th_pc \in {"poll", "sleep"}) =>
        \/ should_start_alarm(inner, last_played_time, now).some
        \/ last_played_time = SomeTime(rhist.rearmed.val)

C29_RetryRearms == [][C29_RetryStep]_vars /\ []C29_Rearmed

\* the snapshots should_start_alarm_soon is evaluated on: the current alarm
\* state, enabled and disabled, with the current last_played, with none, and
\* with a last played time just before, at and just after next_alarm
SnapshotStates == {inner, [inner EXCEPT !.enabled = ~@]}
SnapshotLastPlayed ==
    {NoTime, last_played_time} \cup {SomeTime(inner.next_alarm + d) : d \in {0 - 1, 0, 1}}

C30_AssertionHolds ==
    /\ th_pc # "panicked"
    /\ \A state \in SnapshotStates, last_played \in SnapshotLastPlayed, margin \in Margins :
          LET found == should_start_alarm_soon(state, last_played, now, margin)
          IN /\ ~found.panicked
             /\ found.some =>
                   (found.val = state.next_alarm
                      /\ is_trigger_time(state, found.val, last_played))

C30_FirstTickStep ==
    /\ (th_pc = "poll" /\ th_pc' = "select") =>
          is_trigger_time(inner', th_trigger'.val, last_played_time')
    /\ (/\ th_pc \in {"select", "playing"}
        /\ th_pc' # th_pc
        /\ is_trigger_time(inner, th_trigger.val, last_played_time)
        /\ inner' = inner
        /\ last_played_time' = last_played_time) =>
          /\ th_trigger' = th_trigger
          /\ th_pc' \in {"playing", "fading"}
          /\ th_pc' = "fading" => ~manually_cancelled'

\* C30: the assertion of should_start_alarm_soon never fails: on every
\* snapshot of the alarm state and last_played and for every margin, when it
\* returns Some(next_alarm), is_trigger_time(next_alarm) holds on the same
\* snapshot, and the loop never panics; the trigger a poll hands to a
\* session satisfies is_trigger_time at the poll, and while the state is as
\* it was the session is not left as cancelled.
C30_AssertionNeverFails == []C30_AssertionHolds /\ [][C30_FirstTickStep]_vars

\* a session started after a re-arm, with last_played_time set, has left its
\* first loop on the timeout
C30_Witness ==
    /\ th_pc = "fading"
    /\ ~manually_cancelled
    /\ rhist.rearms = 1
    /\ last_played_time.some
    /\ is_trigger_time(inner, th_trigger.val, last_played_time)

----------------------------------------------------------------------------
(* should_start_lucid_sounds (lucid.rs 46-59) called on its own (SpecLucid) *)
(* Durations are whole seconds.                                             *)

\* the sleeping times and minimum sleeping times of the calls (seconds); they
\* include the arguments of test_should_start_lucid_sounds (lucid.rs 61-94)
SleepingTimes == {NoTime} \cup {SomeTime(d) : d \in {0, 60, 3600, 5400, 7200}}
MinimumSleepingTimes == {0, 3600, 5400}

\* lucid.rs 46-59
should_start_lucid_sounds_at_minimum(in_bed, alarm_is_active, user_is_waking_up_soon, sleeping_time, minimum_sleeping_time) ==
    /\ in_bed
    /\ alarm_is_active
    /\ ~user_is_waking_up_soon
    /\ (IF sleeping_time.some THEN sleeping_time.val >= minimum_sleeping_time ELSE FALSE)
should_start_lucid_sounds(in_bed, alarm_is_active, user_is_waking_up_soon, sleeping_time, minimum_sleeping_time) ==
    /\ in_bed
    /\ alarm_is_active
    /\ ~user_is_waking_up_soon
    /\ (IF sleeping_time.some THEN sleeping_time.val > minimum_sleeping_time ELSE FALSE)

LucidInit ==
    /\ fn_call \in [fn : {"should_start_lucid_sounds"},
                    is_user_in_bed : BOOLEAN,
                    alarm_is_active : BOOLEAN,
                    user_is_waking_up_soon : BOOLEAN,
                    sleeping_time : SleepingTimes,
                    minimum_sleeping_time : MinimumSleepingTimes]
    /\ fn_result = NoResult

LucidCall ==
    /\ fn_result = NoResult
    /\ fn_call.fn = "should_start_lucid_sounds"
    /\ fn_result' = [value |-> should_start_lucid_sounds(
                                  fn_call.is_user_in_bed, fn_call.alarm_is_active,
                                  fn_call.user_is_waking_up_soon, fn_call.sleeping_time,
                                  fn_call.minimum_sleeping_time)]
    /\ UNCHANGED fn_call
    /\ UNCHANGED <<cvVars, filterVars, playVars, monitorVars, threadVars, retryVars, sleepVars>>

InitLucid ==
    /\ ConvIdle /\ FilterIdle /\ PlayIdle /\ MonitorIdle /\ ThreadIdle /\ RetryIdle
    /\ SleepingIdle /\ LucidInit
NextLucid == LucidCall
SpecLucid == InitLucid /\ [][NextLucid]_vars

\* C22: should_start_lucid_sounds returns true exactly when the user is in
\* bed, an alarm is active, the user is not waking up soon, and the sleeping
\* time is known and strictly greater than the minimum sleeping time; with an
\* unknown sleeping time it returns false.
C22_LucidSoundsIff ==
    fn_result # NoResult =>
        /\ fn_result.value <=>
              (/\ fn_call.is_user_in_bed
               /\ fn_call.alarm_is_active
               /\ ~fn_call.user_is_waking_up_soon
               /\ fn_call.sleeping_time.some
               /\ fn_call.sleeping_time.val > fn_call.minimum_sleeping_time)
        /\ ~fn_call.sleeping_time.some => ~fn_result.value
        /\ fn_call.sleeping_time = SomeTime(fn_call.minimum_sleeping_time) => ~fn_result.value

\* the second case of the test: two hours slept, one hour required
C22_Witness ==
    /\ fn_result # NoResult
    /\ fn_call.is_user_in_bed /\ fn_call.alarm_is_active /\ ~fn_call.user_is_waking_up_soon
    /\ fn_call.sleeping_time = SomeTime(7200)
    /\ fn_call.minimum_sleeping_time = 3600
    /\ fn_result.value

----------------------------------------------------------------------------
(* The envelope functions volume and fadeout (alarm.rs 24-34) called on     *)
(* their own (SpecEnvelope).  Times are milliseconds, gains units of 1/One. *)

\* the arguments of fadeout: the fade-out of play has duration 5 s and
\* t >= 0 (alarm.rs 215-223); the lucid music envelope has duration 10 s and
\* calls it with t - (duration - 10), negative until the fade starts
\* (lucid.rs 146-162)
FadeDurations == {fadeout_duration * Milli, 10 * Milli}
FadeTimes == {0 - 2500, 0 - 1250, 0 - 1000, 0 - 40, 0, 40, 1000, 2500, 4000, 4960,
              5000, 5040, 7500, 9960, 10000, 10040, 20000}
\* the arguments of volume: every second of the first 80 s, and the times
\* around the end of the ramp and of the session
VolumeTimes == {k * Milli : k \in 0..80}
                  \cup {4999, 5001, 53249, 53250, 53251, 69999, 140000, 142858,
                        alarm_timeout * Milli}

\* the least 1 - t/duration the model computes smoothstep for (its cube
\* stays within 32 bits): t >= -duration/4
FadeArguments ==
    {c \in [fn : {"fadeout"}, t : FadeTimes, duration : FadeDurations] :
        4 * c.t >= 0 - c.duration}

EnvelopeInit ==
    /\ fn_call \in FadeArguments \cup [fn : {"volume"}, t : VolumeTimes]
    /\ fn_result = NoResult

EnvelopeCall ==
    /\ fn_result = NoResult
    /\ fn_call.fn \in {"fadeout", "volume"}
    /\ fn_result' = [value |-> IF fn_call.fn = "fadeout"
                               THEN fadeout(fn_call.t, fn_call.duration)
                               ELSE volume(fn_call.t)]
    /\ UNCHANGED fn_call
    /\ UNCHANGED <<cvVars, filterVars, playVars, monitorVars, threadVars, retryVars, sleepVars>>

InitEnvelope ==
    /\ ConvIdle /\ FilterIdle /\ PlayIdle /\ MonitorIdle /\ ThreadIdle /\ RetryIdle
    /\ SleepingIdle /\ EnvelopeInit
NextEnvelope == EnvelopeCall
SpecEnvelope == InitEnvelope /\ [][NextEnvelope]_vars

FadeoutReturned == fn_result # NoResult /\ fn_call.fn = "fadeout"
VolumeReturned == fn_result # NoResult /\ fn_call.fn = "volume"

\* C23: fadeout(t, d) is smoothstep(clamp(1 - t/d, 0, 1)): 0 for t >= d, 1
\* for t <= 0, and within [0, 1] for every t.
C23_FadeoutIsClampedSmoothstep ==
    FadeoutReturned =>
        /\ fn_result.value =
              smoothstep(Min(One, Max(One - RatioOne(fn_call.t, fn_call.duration), 0)))
        /\ fn_call.t >= fn_call.duration => fn_result.value = 0
        /\ fn_call.t <= 0 => fn_result.value = One
        /\ 0 <= fn_result.value /\ fn_result.value <= One

\* C24: volume(t) is below 1 for every t before 53.25 s and 1 from 53.25 s
\* on (0.02 t - 0.065 = 1 at t = 53.25 s); it never decreases as t grows and
\* stays within [0, 1] for t >= 0.
C24_FullVolumeAt53s ==
    VolumeReturned =>
        /\ fn_call.t < 53250 => fn_result.value < One
        /\ fn_call.t >= 53250 => fn_result.value = One
        /\ \A u \in VolumeTimes : u <= fn_call.t => volume(u) <= fn_result.value
        /\ 0 <= fn_result.value /\ fn_result.value <= One

\* C24 as stated: volume(t) is below 1 for every t before 70 s
C24_FullVolumeAfter70s ==
    VolumeReturned =>
        /\ fn_call.t < 70 * Milli => fn_result.value < One
        /\ \A u \in VolumeTimes : u <= fn_call.t => volume(u) <= fn_result.value
        /\ 0 <= fn_result.value /\ fn_result.value <= One

\* the first millisecond of full volume
C24_Witness ==
    /\ VolumeReturned
    /\ fn_call.t = 53250
    /\ fn_result.value = One
    /\ volume(53249) = One - 20

----------------------------------------------------------------------------
(* convolve on the literal fixture K = [0.5, 0.5], X = [1, 2, 3, 4]         *)
(* (SpecFixture).  Taps and outputs are in units of 1/2, which f32          *)
(* represents and adds exactly: the kernel is <<1, 1>> and an output of     *)
(* 1.5 is 3.                                                                *)

FixtureKernel == <<1, 1>>
FixtureInput == <<1, 2, 3, 4>>

\* the fixture and the other inputs of four samples out of 1..4, with every
\* output buffer the caller may pass
FixtureInit ==
    /\ cv_filter = FixtureKernel
    /\ cv_input \in [1..4 -> 1..4]
    /\ cv_output \in {[k \in 1..n |-> 0] : n \in 0..MaxConvOutput}
    /\ cv_build \in {"debug", "release"}
    /\ cv_result = NoResult

InitFixture ==
    /\ FixtureInit /\ FilterIdle /\ PlayIdle /\ MonitorIdle /\ ThreadIdle /\ OthersIdle
NextFixture == ConvolveCall
SpecFixture == InitFixture /\ [][NextFixture]_vars

FixtureCalled == cv_result # NoResult /\ cv_input = FixtureInput

\* C25 as stated: convolve with K = [0.5, 0.5] and X = [1, 2, 3, 4] produces
\* the output [1.5, 2.5, 3.5].
C25_FixtureThreeSamples ==
    (FixtureCalled /\ cv_result.returned) => cv_result.output = <<3, 5, 7>>

\* C25: convolve with K = [0.5, 0.5] and X = [1, 2, 3, 4] returns only for an
\* output buffer of |X| - |K| = 2 samples and produces [1.5, 2.5]; with a
\* buffer of three samples it fails the shape assertion and writes nothing.
C25_FixtureTwoSamples ==
    FixtureCalled =>
        /\ cv_result.returned <=> Len(cv_output) = 2
        /\ cv_result.returned => cv_result.output = <<3, 5>>
        /\ Len(cv_output) = 3 =>
              (cv_result.panicked /\ cv_result.output = <<0, 0, 0>>)

C25_Witness ==
    /\ FixtureCalled
    /\ cv_result.returned
    /\ cv_result.output = <<3, 5>>
    /\ cv_result.written = {1, 2}

----------------------------------------------------------------------------
(* The gain of the first tick of play's fade-out loop in f32 arithmetic     *)
(* (alarm.rs 214-223) (SpecFadeGain)                                        *)
(*                                                                          *)
(* An f32 between 1/2 and 4 is an integer number of units of 2^-24: every   *)
(* integer below 2^24 (the f32 below 1), every second integer from 2^24 to  *)
(* 2^25 (from 1 to 2), every fourth one from 2^25 to 2^26.  An operation    *)
(* returns the f32 nearest to the exact result, the one with the even       *)
(* mantissa on a tie.  Products are taken in halves of 12 bits to stay      *)
(* within 32 bits.                                                          *)

F32One == 2 ^ 24
F32Half == 2 ^ 12

\* q + r/den rounded to the nearest integer, to the even one on a tie
F32RoundEven(q, r, den) ==
    IF 2 * r > den \/ (2 * r = den /\ q % 2 = 1) THEN q + 1 ELSE q

\* the exact product a * b / 2^24 as q + r / 2^24, for 0 <= a, b <= 2^24
F32MulParts(a, b) ==
    LET ah == a \div F32Half
        al == a % F32Half
        bh == b \div F32Half
        bl == b % F32Half
        lo == al * bl
        mid == ah * bl + al * bh + lo \div F32Half
    IN [q |-> ah * bh + mid \div F32Half,
        r |-> (mid % F32Half) * F32Half + (lo % F32Half)]

\* a * b in f32, for a product between 1/2 and 1
F32Mul(a, b) == F32RoundEven(F32MulParts(a, b).q, F32MulParts(a, b).r, F32One)

\* the distance of two neighbouring f32 at v, for 1/2 <= v < 4
F32Spacing(v) == IF v < F32One THEN 1 ELSE IF v < 2 * F32One THEN 2 ELSE 4

\* the f32 nearest to the integer v
F32Round(v) ==
    F32Spacing(v) * F32RoundEven(v \div F32Spacing(v), v % F32Spacing(v), F32Spacing(v))

\* alarm.rs 28-30 in f32: 3.0 * x.powi(2) - 2.0 * x.powi(3), where powi
\* multiplies (x * x, then x * x * x) and 2.0 * y is exact
smoothstep_f32(x) ==
    LET x2 == F32Mul(x, x)
        x3 == F32Mul(x2, x)
    IN F32Round(F32Round(3 * x2) - 2 * x3)

\* alarm.rs 218 and 32-34 in f32: t_fadeout is lag nanoseconds as seconds,
\* and fadeout(t_fadeout, duration) is smoothstep((1.0 - t / duration).max(0.0)),
\* duration in whole seconds.  t / duration is lag * 2^15 / (duration * 5^9)
\* units; it is far below one unit's precision, so only the subtraction rounds.
fadeout_f32(lag, duration) ==
    LET den == duration * 5 ^ 9
        q == (lag * 2 ^ 15) \div den
        r == (lag * 2 ^ 15) % den
        x == IF r = 0 THEN F32One - q ELSE F32RoundEven(F32One - q - 1, den - r, den)
    IN smoothstep_f32(Max(x, 0))

\* the nanoseconds between taking t1 (alarm.rs 214) and reading t_fadeout at
\* the first tick of the fade-out loop (alarm.rs 218)
FadeLags == {50 * k : k \in 0..80}
\* when the first loop was left (seconds): at the timeout, or on a
\* cancellation after the volume ramp has reached 1
LeftAtSeconds == {54, 120, alarm_timeout + 1}

FadeGainInit ==
    /\ fn_call \in [fn : {"fade_gain"}, left_at : LeftAtSeconds, lag : FadeLags]
    /\ fn_result = NoResult

\* alarm.rs 223: controller.set_volume(volume(t) * fadeout(t_fadeout, fadeout_duration))
\* at the first tick, where volume(t) is exactly 1.0 and the product is exact
FadeGainWrite ==
    /\ fn_result = NoResult
    /\ fn_call.fn = "fade_gain"
    /\ volume(fn_call.left_at * Milli) = One
    /\ fn_result' = [value |-> fadeout_f32(fn_call.lag, fadeout_duration)]
    /\ UNCHANGED fn_call
    /\ UNCHANGED <<cvVars, filterVars, playVars, monitorVars, threadVars, retryVars, sleepVars>>

InitFadeGain ==
    /\ ConvIdle /\ FilterIdle /\ PlayIdle /\ MonitorIdle /\ ThreadIdle /\ RetryIdle
    /\ SleepingIdle /\ FadeGainInit
NextFadeGain == FadeGainWrite
SpecFadeGain == InitFadeGain /\ [][NextFadeGain]_vars

\* C26: the gain stored in the shared settings is within [0, 1] in every
\* reachable state of a playback session; here after the first write of
\* the fade-out loop, volume(t) * fadeout(t_fadeout, 5).
C26_GainWithinUnitInterval ==
    (fn_result # NoResult /\ fn_call.fn = "fade_gain") =>
        (0 <= fn_result.value /\ fn_result.value <= F32One)

----------------------------------------------------------------------------
(* The kernel recomputation of FilteredSource::next (filtered_source.rs     *)
(* 130-141) on its own (SpecDesign).  Frequencies and sample rates are      *)
(* whole Hz.                                                                *)

\* what lowpass_freq(t) may return, and the sample rates of a source (u32)
TargetFrequencies == {0 - 800, 0 - 1, 0, 1, 799, 800, 5000, 22049, 22050, 22051,
                      24000, 100000}
SampleRates == {0, 1, 8000, 44100, 44101, 48000}

\* filtered_source.rs 135: freq.min((self.sample_rate() / 2) as f64), the
\* division being one of u32
DesignCutoff(freq, sample_rate) == Min(freq, sample_rate \div 2)

DesignInit ==
    /\ fn_call \in [fn : {"lowpass"}, freq : TargetFrequencies, sample_rate : SampleRates]
    /\ fn_result = NoResult

\* filtered_source.rs 131-140: the frequency is bounded by half the sample
\* rate, handed to cutoff_from_frequency and lowpass_filter, and what
\* lowpass_filter returns is stored.  Nothing is tested on the way: the
\* synthrs functions divide the frequency by the sample rate and take a
\* windowed sinc of the quotient, whatever it is.
DesignStore ==
    /\ fn_result = NoResult
    /\ fn_call.fn = "lowpass"
    /\ \E kernel \in Kernels :
         fn_result' = [failed |-> FALSE,
                       cutoff |-> DesignCutoff(fn_call.freq, fn_call.sample_rate),
                       lowpass |-> kernel]
    /\ UNCHANGED fn_call
    /\ UNCHANGED <<cvVars, filterVars, playVars, monitorVars, threadVars, retryVars, sleepVars>>

InitDesign ==
    /\ ConvIdle /\ FilterIdle /\ PlayIdle /\ MonitorIdle /\ ThreadIdle /\ RetryIdle
    /\ SleepingIdle /\ DesignInit
NextDesign == DesignStore
SpecDesign == InitDesign /\ [][NextDesign]_vars

\* C27: the kernel design fails with InvalidFilterParameters and stores no
\* kernel when the target cutoff is <= 0 or the sample rate is <= 0; for
\* valid parameters the cutoff handed to the designer is
\* min(cutoff(t), sample_rate / 2) and the stored kernel has even length.
C27_InvalidParametersFail ==
    (fn_result # NoResult /\ fn_call.fn = "lowpass") =>
        IF fn_call.freq <= 0 \/ fn_call.sample_rate <= 0
        THEN fn_result.failed /\ fn_result.lowpass = <<>>
        ELSE /\ ~fn_result.failed
             /\ fn_result.cutoff = Min(fn_call.freq, fn_call.sample_rate \div 2)
             /\ Len(fn_result.lowpass) % 2 = 0

----------------------------------------------------------------------------
(* play with its thread being scheduled (SpecPlayScheduled): every          *)
(* statement of play that can run does run, and the clock goes on; nothing  *)
(* is assumed of put_state.                                                 *)

\* the first session of an alarm: nothing has been played before
InitPlayScheduled == InitPlay /\ last_played_time = NoTime

SpecPlayScheduled ==
    /\ InitPlayScheduled
    /\ [][NextPlay]_vars
    /\ WF_vars(PlayRunningTick)
    /\ WF_vars(PlayFadeoutTick)
    /\ WF_vars(PlaySetVolumeZero)
    /\ WF_vars(PlaySinkStop)
    /\ WF_vars(PlayOnAlarmFinished)
    /\ WF_vars(TimePasses)

C28_Deadlines ==
    /\ play_pc = "running" =>
          /\ phist.last_running_tick <= alarm_timeout * Milli
          /\ now <= Max(phist.last_running_tick, 0) + TickGap
    /\ LeftRunning =>
          /\ phist.last_running_tick <= alarm_timeout * Milli
          /\ t1 <= Max(phist.last_running_tick, 0) + TickGap
          /\ t1 <= alarm_timeout * Milli + TickGap
    /\ play_pc = "fadeout" => now - t1 < fadeout_duration * Milli + TickGap
    /\ (LeftRunning /\ play_pc # "fadeout") =>
          /\ phist.stopped_at - t1 >= fadeout_duration * Milli
          /\ phist.stopped_at - t1 < fadeout_duration * Milli + TickGap
          /\ now = phist.stopped_at \/ play_pc = "stopped"

\* C28: every session terminates, whatever put_state does to the
\* cancellation predicate, when play keeps being scheduled: the Running loop
\* is left at the first tick with t > alarm_timeout at the latest (no tick
\* with t > alarm_timeout stays in it, and ticks are at most TickGap apart),
\* the fade-out loop is left at the first tick at least fadeout_duration
\* after that, and the session then stops without further delay.
C28_SessionTerminates == <>(play_pc = "stopped") /\ []C28_Deadlines

\* a session cancelled early whose predicate holds again when it has stopped
C28_Witness ==
    /\ play_pc = "stopped"
    /\ manually_cancelled
    /\ is_trigger_time(inner, trigger_time, SomeTime(trigger_time - 1))
    /\ t1 < alarm_timeout * Milli
    /\ phist.stopped_at = t1 + fadeout_duration * Milli

----------------------------------------------------------------------------
(* SleepMonitor (sleep_monitor.rs 70-148), driven by monitor_sleep           *)
(* (main.rs 208-257) (SpecMonitor)                                          *)
(*                                                                          *)
(* An acceleration is a triple in units of 1/1000; a time is a number of    *)
(* sampling periods (monitor_sleep pushes about every 100 ms).  An Instant  *)
(* of the times window is kept as its elapsed() at the latest push, and     *)
(* every age above max_memory as max_memory + 1: push reads the Instants    *)
(* only in `elapsed() > max_memory`.                                         *)

\* sleep_monitor.rs 121-122 and 136-137 (thresholds in units of 1/1000)
MOVEMENT_THRESHOLD == 20
MOVEMENT_THRESHOLD_SAMPLES == 2
NOISE_THRESHOLD == 15
NOISE_THRESHOLD_SAMPLES == 1

\* main.rs 314: Duration::from_secs(10 * 60), scaled down to sampling periods
max_memory == 3
\* the longer time between two pushes (main.rs 217-220 adds a second of sleep
\* to the 100 ms of sampling when the user is not in bed)
SlowGap == 3

\* the time between two pushes
Gaps == {1, SlowGap}

\* The samples pushed.  Every two of them are an integer distance apart:
\* 0, 18 (noise, no movement), 20 (the movement threshold itself) and 34.
AccValues == {<<12, 0, 0>>, <<0, 16, 0>>, <<30, 0, 0>>}
\* two samples that are 34 apart
MovingValues == {<<0, 16, 0>>, <<30, 0, 0>>}

\* f32::sqrt on the sums of squares that occur (all perfect squares)
ISqrt(q) == CHOOSE r \in 0..q : r * r <= q /\ q < (r + 1) * (r + 1)

\* sleep_monitor.rs 98-103
DeltaMagn(data, prev) ==
    ISqrt((data[1] - prev[1]) * (data[1] - prev[1])
          + (data[2] - prev[2]) * (data[2] - prev[2])
          + (data[3] - prev[3]) * (data[3] - prev[3]))

\* Vec::remove(0)
RemoveFirst(v) == SubSeq(v, 2, Len(v))
RemoveLast(v) == SubSeq(v, 1, Len(v) - 1)

\* sleep_monitor.rs 107-113: the eviction at the end of push
EvictNewest(data, tms, deltas) ==
    IF tms[1] > max_memory
    THEN [data |-> RemoveLast(data),
          times |-> RemoveLast(tms),
          deltas |-> IF Len(deltas) > Len(RemoveLast(tms))
                     THEN RemoveLast(deltas) ELSE deltas,
          evicted |-> TRUE]
    ELSE [data |-> data, times |-> tms, deltas |-> deltas, evicted |-> FALSE]
Evict(data, tms, deltas) ==
    IF tms[1] > max_memory
    THEN [data |-> RemoveFirst(data),
          times |-> RemoveFirst(tms),
          deltas |-> IF Len(deltas) > Len(RemoveFirst(tms))
                     THEN RemoveFirst(deltas) ELSE deltas,
          evicted |-> TRUE]
    ELSE [data |-> data, times |-> tms, deltas |-> deltas, evicted |-> FALSE]

\* the loop `for &v in &self.rolling_delta_magn { if v > T { cnt += 1 } }`
\* over the first n entries
RECURSIVE CountAtLeast(_, _, _)
CountAtLeast(deltas, threshold, n) ==
    IF n = 0 THEN 0
    ELSE CountAtLeast(deltas, threshold, n - 1) + (IF deltas[n] >= threshold THEN 1 ELSE 0)
RECURSIVE CountAbove(_, _, _)
CountAbove(deltas, threshold, n) ==
    IF n = 0 THEN 0
    ELSE CountAbove(deltas, threshold, n - 1) + (IF deltas[n] > threshold THEN 1 ELSE 0)

\* sleep_monitor.rs 120-132
is_significant_movement(deltas) ==
    CountAbove(deltas, MOVEMENT_THRESHOLD, Len(deltas)) > MOVEMENT_THRESHOLD_SAMPLES

\* sleep_monitor.rs 135-147
is_present_loud(deltas) ==
    CountAbove(deltas, 2 * MOVEMENT_THRESHOLD, Len(deltas)) > NOISE_THRESHOLD_SAMPLES
is_present(deltas) ==
    CountAbove(deltas, NOISE_THRESHOLD, Len(deltas)) > NOISE_THRESHOLD_SAMPLES

MonHistInit ==
    [pushed |-> FALSE,      \* push has been called
     evicted |-> FALSE,     \* a push has evicted an entry
     big_pushed |-> 0]      \* deltas above MOVEMENT_THRESHOLD pushed, counted up to 3

NoQuery == [asked |-> FALSE, present |-> FALSE, movement |-> FALSE]

MonitorInit ==
    /\ rolling_data = <<>>
    /\ times = <<>>
    /\ rolling_delta_magn = <<>>
    /\ is_user_in_bed = FALSE
    /\ mon_query = NoQuery
    /\ mon_quiet = FALSE
    /\ mhist = MonHistInit

\* SleepMonitor::push (sleep_monitor.rs 92-118), called gap periods after the
\* push before it.
PushSample(data, gap) ==
        /\ mon_quiet => data = rolling_data[Len(rolling_data)]
        /\ LET has_prev == rolling_data # <<>>
               pushed_data == Append(rolling_data, data)
               aged == [k \in 1..Len(times) |-> Min(times[k] + gap, max_memory + 1)]
               pushed_times == Append(aged, 0)
               delta_magn == DeltaMagn(data, rolling_data[Len(rolling_data)])
               pushed_deltas == IF has_prev THEN Append(rolling_delta_magn, delta_magn)
                                ELSE rolling_delta_magn
               e == Evict(pushed_data, pushed_times, pushed_deltas)
           IN /\ rolling_data' = e.data
              /\ times' = e.times
              /\ rolling_delta_magn' = e.deltas
              /\ is_user_in_bed' = is_present(e.deltas)
              /\ mhist' = [mhist EXCEPT
                     !.pushed = TRUE,
                     !.evicted = @ \/ e.evicted,
                     !.big_pushed =
                        IF has_prev /\ delta_magn > MOVEMENT_THRESHOLD
                        THEN Min(@ + 1, 3) ELSE @]
        /\ UNCHANGED <<mon_query, mon_quiet>>
        /\ UNCHANGED <<cvVars, filterVars, playVars, threadVars, retryVars, callVars, sleepVars>>

Push == \E data \in AccValues, gap \in Gaps : PushSample(data, gap)

\* the pushes of a sensor that jumps between two positions, or rests
PushMoving == \E data \in MovingValues, gap \in Gaps : PushSample(data, gap)

\* is_present (main.rs 217) and is_significant_movement (alarm.rs 308-313)
\* called by the other threads
MonitorQuery ==
    /\ mon_query' = [asked |-> TRUE,
                     present |-> is_present(rolling_delta_magn),
                     movement |-> is_significant_movement(rolling_delta_magn)]
    /\ mon_query' # mon_query
    /\ UNCHANGED <<rolling_data, times, rolling_delta_magn, is_user_in_bed, mon_quiet,
                   mhist>>
    /\ UNCHANGED <<cvVars, filterVars, playVars, threadVars, retryVars, callVars, sleepVars>>

\* The sensor comes to rest: from now on every sample equals the one before.
ComeToRest ==
    /\ ~mon_quiet
    /\ rolling_data # <<>>
    /\ mon_quiet' = TRUE
    /\ UNCHANGED <<rolling_data, times, rolling_delta_magn, is_user_in_bed, mon_query,
                   mhist>>
    /\ UNCHANGED <<cvVars, filterVars, playVars, threadVars, retryVars, callVars, sleepVars>>

InitMonitor == ConvIdle /\ FilterIdle /\ PlayIdle /\ MonitorInit /\ ThreadIdle /\ OthersIdle
NextMonitor == Push \/ MonitorQuery \/ ComeToRest
SpecMonitor == InitMonitor /\ [][NextMonitor]_vars

\* monitor_sleep is `loop { ... push ... }`: the pushes never stop.
InitMoving == ConvIdle /\ FilterIdle /\ PlayIdle /\ MonitorInit /\ ThreadIdle /\ OthersIdle
NextMoving == PushMoving \/ ComeToRest
SpecMoving == InitMoving /\ [][NextMoving]_vars /\ WF_vars(PushMoving)

----------------------------------------------------------------------------
(* Properties of the monitor *)

\* C16: after any pushes, rolling_delta_magn holds at least one entry fewer
\* than rolling_data.
C16_DeltaWindowLagsByOne ==
    mhist.pushed => Len(rolling_delta_magn) <= Len(rolling_data) - 1

\* C17: after every push, no entry of the sample window is older than
\* max_memory, and the delta window holds no delta of an evicted entry.
C17_NoEntryOlderThanMaxMemory ==
    mhist.pushed =>
        /\ \A k \in 1..Len(times) : times[k] <= max_memory
        /\ Len(rolling_delta_magn) <= Len(rolling_data) - 1

\* C18: once more than MOVEMENT_THRESHOLD_SAMPLES deltas above the movement
\* threshold have been pushed and none evicted, is_significant_movement() is
\* true; once the sensor rests and the pushes go on, at whatever rate, the
\* large deltas are evicted and is_significant_movement() becomes false.
C18_MovementSeen ==
    (mhist.big_pushed > MOVEMENT_THRESHOLD_SAMPLES /\ ~mhist.evicted) =>
        is_significant_movement(rolling_delta_magn)

C18_MovementThenRest ==
    /\ []C18_MovementSeen
    /\ mon_quiet ~> ~is_significant_movement(rolling_delta_magn)

\* the sensor came to rest with movement reported, after evictions, and the
\* large deltas have left the window
C18_Witness ==
    /\ mon_quiet
    /\ mhist.evicted
    /\ mhist.big_pushed = 3
    /\ Len(rolling_delta_magn) >= 2
    /\ \A k \in 1..Len(rolling_delta_magn) : rolling_delta_magn[k] = 0
    /\ ~is_significant_movement(rolling_delta_magn)

\* C19: is_present() is true exactly when at least 2 deltas of the window
\* are strictly above 0.015, is_significant_movement() exactly when at
\* least 3 are strictly above 0.02; a query changes neither window.
DeltasAbove(threshold) == {k \in 1..Len(rolling_delta_magn) : rolling_delta_magn[k] > threshold}

C19_InBedIsPresent ==
    mhist.pushed => (is_user_in_bed <=> Cardinality(DeltasAbove(15)) >= 2)

C19_QueryStep ==
    mon_query' # mon_query =>
        /\ mon_query'.present <=> Cardinality(DeltasAbove(15)) >= 2
        /\ mon_query'.movement <=> Cardinality(DeltasAbove(20)) >= 3
        /\ <<rolling_data, times, rolling_delta_magn>>' =
              <<rolling_data, times, rolling_delta_magn>>

C19_QueriesCountDeltas == []C19_InBedIsPresent /\ [][C19_QueryStep]_vars

\* three deltas at or above the movement threshold, one of them on it:
\* present, no significant movement
C19_Witness ==
    /\ mon_query.asked
    /\ mon_query.present
    /\ ~mon_query.movement
    /\ Cardinality({k \in 1..Len(rolling_delta_magn) : rolling_delta_magn[k] >= 20}) >= 3
    /\ \E k \in 1..Len(rolling_delta_magn) : rolling_delta_magn[k] = 20
    /\ is_user_in_bed

\* C32: in every state of the monitor, is_significant_movement() implies
\* is_present(): on the window itself, in what a query returns, and in the
\* is_user_in_bed a push has published.
C32_MovementImpliesPresent ==
    /\ is_significant_movement(rolling_delta_magn) => is_present(rolling_delta_magn)
    /\ mon_query.movement => mon_query.present
    /\ (mhist.pushed /\ is_significant_movement(rolling_delta_magn)) => is_user_in_bed

\* a query has reported significant movement, and one delta of the window
\* is noise only
C32_Witness ==
    /\ mon_query.asked
    /\ mon_query.movement
    /\ is_significant_movement(rolling_delta_magn)
    /\ is_user_in_bed
    /\ \E k \in 1..Len(rolling_delta_magn) :
          /\ rolling_delta_magn[k] > NOISE_THRESHOLD
          /\ rolling_delta_magn[k] <= MOVEMENT_THRESHOLD

----------------------------------------------------------------------------
(* monitor_sleeping_duration (lucid.rs 19-44) (SpecSleeping)                *)
(* An Instant is the clock (ms) at which it was taken.                      *)

\* lucid.rs 30: TimeDelta::hours(12)
LucidMargin == 12 * 3600 * Milli
\* lucid.rs 42: tokio::time::sleep(60 s)
MonitorSleepMillis == 60 * Milli
\* iterations of the loop in a run
MaxIterations == 4

\* what SyncedContainer<bool>::get returns: None, Some(false), Some(true)
Flags == {[some |-> FALSE, val |-> FALSE]} \cup [some : {TRUE}, val : BOOLEAN]
\* lucid.rs 26-27: `.get().unwrap_or(false)`
UnwrapOrFalse(flag) == flag.some /\ flag.val

\* lucid.rs 33-41: what one iteration does to sleeping_start_time
monitor_sleeping_step_overwriting(start, alarm_is_active, in_bed, is_awake, instant) ==
    IF alarm_is_active /\ in_bed /\ ~is_awake
    THEN SomeTime(instant)
    ELSE IF ~alarm_is_active THEN NoTime
    ELSE start
monitor_sleeping_step(start, alarm_is_active, in_bed, is_awake, instant) ==
    IF alarm_is_active /\ in_bed /\ ~is_awake
    THEN (IF ~start.some THEN SomeTime(instant) ELSE start)
    ELSE IF ~alarm_is_active THEN NoTime
    ELSE start

SleepingHistInit ==
    [iterations |-> 0,         \* iterations of the loop so far
     stores |-> 0,             \* changes of the alarm state so far
     alarm_is_active |-> FALSE,\* what the last iteration read
     in_bed |-> FALSE,
     is_awake |-> FALSE]

\* lucid.rs 212: Arc::new(Mutex::new(None)); the task starts just before the
\* alarm at 0 comes within the 12 hours
SleepingInit ==
    /\ sleeping_start_time = NoTime
    /\ shist = SleepingHistInit
    /\ now = 0 - LucidMargin - MonitorSleepMillis
    /\ play_pc = "none"
    /\ play_wake = 0
    /\ t1 = -1
    /\ manually_cancelled = FALSE
    /\ trigger_time = 0
    /\ inner \in [enabled : BOOLEAN, next_alarm : AlarmTimes]
    /\ last_played_time \in {NoTime, SomeTime(0 - DayMillis)}
    /\ sink_stopped = FALSE
    /\ phist = <<>>

\* lucid.rs 25-42: one iteration of the loop and the sleep after it
MonitorSleepingIterate ==
    /\ shist.iterations < MaxIterations
    /\ \E bed \in Flags, moving \in Flags :
         LET in_bed == UnwrapOrFalse(bed)
             is_awake == UnwrapOrFalse(moving)
             alarm_is_active ==
                 should_start_alarm_soon(inner, last_played_time, now, LucidMargin).some
         IN /\ sleeping_start_time' =
                  monitor_sleeping_step(sleeping_start_time, alarm_is_active, in_bed,
                                        is_awake, now)
            /\ shist' = [shist EXCEPT
                   !.iterations = @ + 1,
                   !.alarm_is_active = alarm_is_active,
                   !.in_bed = in_bed,
                   !.is_awake = is_awake]
    /\ now' = now + MonitorSleepMillis
    /\ UNCHANGED <<play_pc, play_wake, t1, manually_cancelled, trigger_time, inner,
                   last_played_time, sink_stopped, phist>>
    /\ UNCHANGED <<cvVars, filterVars, monitorVars, threadVars, retryVars, callVars>>

\* main.rs 136-143 (put_state): the alarm state is replaced while the task runs
SleepingPutState ==
    /\ shist.stores < MaxStores
    /\ \E st \in [enabled : BOOLEAN, next_alarm : AlarmTimes] :
         /\ st # inner
         /\ inner' = st
    /\ shist' = [shist EXCEPT !.stores = @ + 1]
    /\ UNCHANGED <<now, play_pc, play_wake, t1, manually_cancelled, trigger_time,
                   last_played_time, sink_stopped, phist, sleeping_start_time>>
    /\ UNCHANGED <<cvVars, filterVars, monitorVars, threadVars, retryVars, callVars>>

InitSleeping ==
    /\ ConvIdle /\ FilterIdle /\ MonitorIdle /\ ThreadIdle /\ RetryIdle /\ CallIdle
    /\ SleepingInit
NextSleeping == MonitorSleepingIterate \/ SleepingPutState
SpecSleeping == InitSleeping /\ [][NextSleeping]_vars

\* C34: sleeping_start_time is set only in an iteration that finds an alarm
\* active, the user in bed and not awake, and only when it is unset (to the
\* time of that iteration; a value that is there is never overwritten); it
\* is cleared only in an iteration that finds no alarm active; an iteration
\* with an alarm active and the user awake or out of bed leaves it as it is,
\* and so does every step that is not an iteration.
C34_LatchStep ==
    /\ (sleeping_start_time'.some /\ sleeping_start_time' # sleeping_start_time) =>
          /\ ~sleeping_start_time.some
          /\ shist'.iterations = shist.iterations + 1
          /\ shist'.alarm_is_active /\ shist'.in_bed /\ ~shist'.is_awake
          /\ sleeping_start_time' = SomeTime(now)
    /\ (sleeping_start_time.some /\ ~sleeping_start_time'.some) =>
          /\ shist'.iterations = shist.iterations + 1
          /\ ~shist'.alarm_is_active
    /\ (/\ shist'.iterations = shist.iterations + 1
        /\ shist'.alarm_is_active
        /\ (shist'.is_awake \/ ~shist'.in_bed)) =>
          sleeping_start_time' = sleeping_start_time
    /\ shist'.iterations = shist.iterations => sleeping_start_time' = sleeping_start_time

C34_SleepStartLatched == [][C34_LatchStep]_vars

\* the sleep start was taken two iterations ago and the last iteration, with
\* the alarm active and the user in bed and asleep, has kept it
C34_Witness ==
    /\ sleeping_start_time.some
    /\ now - sleeping_start_time.val >= 2 * MonitorSleepMillis
    /\ shist.alarm_is_active /\ shist.in_bed /\ ~shist.is_awake

====
